---- MODULE Spec2Model ----
(***************************************************************************)
(* A model of the M-Pesa payment tracker:                                  *)
(*   - MpesaClient.stk_push and its helpers        (src/mpesa_client.py)   *)
(*   - the callback Inbox and its webhook          (src/fast/callback.py)  *)
(*   - the transactions store                      (src/database.py)       *)
(*   - the second webhook, which updates rows      (src/callback_handler.py)*)
(*                                                                         *)
(* Python strings whose characters the code inspects (phone numbers,       *)
(* amounts, metadata values) are sequences of one-character strings.       *)
(* A JSON number is written as the characters str() gives for it, so the   *)
(* number 0 is <<"0">> and the empty string is <<>>.  An optional value    *)
(* (None, or a missing dictionary key) is a sequence of length 0 or 1.     *)
(* Time is counted in quarter seconds, the unit in which every polling     *)
(* interval of wait_for_callback before the cap is a whole number.         *)
(***************************************************************************)
EXTENDS Integers, Sequences, FiniteSets, TLC

VARIABLES
    pc,               \* position of the client inside stk_push
    formatted_phone,  \* stk_push local: validate_phone's result
    validated_amount, \* stk_push local: validate_amount's result
    checkout_id,      \* stk_push local: CheckoutRequestID given by the gateway
    elapsed,          \* wait_for_callback: time.time() - start_time
    poll_interval,    \* wait_for_callback local
    poll_raised,      \* wait_for_callback: the poll before this sleep raised
    poll_errors,      \* history: number of polls of this wait that raised
    callback_data,    \* stk_push local: what wait_for_callback returned
    rows_before,      \* history: the stored rows when stk_push was called
    result,           \* what stk_push returned to its caller
    callback_store,   \* fast/callback.py: the in-memory Inbox
    transactions,     \* database.py: rows of the transactions table
    has_column,       \* database.py: the table has a checkout_id column
    inbox_reliable,   \* the callback server answers every request with 200
    mpesa_transactions, \* callback_handler.py: rows of the repository, by checkout id
    ack,              \* what a webhook last answered to the gateway
    call,             \* the last direct call of a function: its name and arguments
    ret,              \* what that call returned, or the exception it raised
    seen,             \* history: the callbacks wait_for_callback has returned
                      \* since the last delivery to the webhook
    stk_args,         \* history: the arguments stk_push was called with
    response,         \* stk_push local: the gateway's answer to the STK push
    trail,            \* history: the requests and store calls stk_push has
                      \* made, each at its first occurrence, in order
    access_token,     \* MpesaClient._access_token
    token_expiry,     \* MpesaClient._token_expiry
    now,              \* datetime.now(), in minutes
    tpc,              \* position of each caller inside get_access_token
    tret,             \* what each caller's last get_access_token did
    attempts,         \* wait_for_callback local: the polls of this wait
    timeout_seconds   \* wait_for_callback's argument

vars == <<pc, formatted_phone, validated_amount, checkout_id, elapsed,
          poll_interval, poll_raised, poll_errors,
          callback_data, rows_before, result, callback_store, transactions,
          has_column, inbox_reliable, mpesa_transactions, ack, call, ret, seen,
          stk_args, response, trail, access_token, token_expiry, now, tpc, tret,
          attempts, timeout_seconds>>

clientVars == <<pc, formatted_phone, validated_amount, checkout_id, elapsed,
                poll_interval, poll_raised, poll_errors,
                callback_data, rows_before, result, stk_args, response, trail,
                attempts>>

tokenVars == <<access_token, token_expiry, now, tpc, tret>>

(***************************************************************************)
(* Strings                                                                 *)
(***************************************************************************)
Digit == {"0", "1", "2", "3", "4", "5", "6", "7", "8", "9"}

Min(a, b) == IF a <= b THEN a ELSE b

None == <<>>

Some(v) == <<v>>

\* `ret` before any call: one slot for each function that is called
\* directly, holding what its last call returned
NoReturn == [list |-> <<>>, row |-> None, id |-> None, phone |-> None, amount |-> None,
             conn |-> None]

\* ''.join(filter(str.isdigit, s))
RECURSIVE FilterDigits(_)
FilterDigits(s) ==
    IF s = <<>> THEN <<>>
    ELSE (IF Head(s) \in Digit THEN <<Head(s)>> ELSE <<>>) \o FilterDigits(Tail(s))

\* s.startswith(p)
StartsWith(s, p) == Len(s) >= Len(p) /\ SubSeq(s, 1, Len(p)) = p

\* s[n:]
From(s, n) == SubSeq(s, n + 1, Len(s))

\* s[-4:]
Last4(s) == IF Len(s) <= 4 THEN s ELSE SubSeq(s, Len(s) - 3, Len(s))

DigitValue(ch) ==
    CASE ch = "0" -> 0 [] ch = "1" -> 1 [] ch = "2" -> 2 [] ch = "3" -> 3
      [] ch = "4" -> 4 [] ch = "5" -> 5 [] ch = "6" -> 6 [] ch = "7" -> 7
      [] ch = "8" -> 8 [] ch = "9" -> 9

\* the integer a string of digits denotes
RECURSIVE DigitsToInt(_)
DigitsToInt(s) ==
    IF s = <<>> THEN 0
    ELSE 10 * DigitsToInt(SubSeq(s, 1, Len(s) - 1)) + DigitValue(s[Len(s)])

(***************************************************************************)
(* float(): what the code does with an amount.  A float is kept as its     *)
(* sign, its integer part and whether a non-zero fraction follows, which   *)
(* is all that the comparisons and int() of validate_amount read.  The     *)
(* numerals read are digits with at most one point and an optional sign,   *)
(* and "nan"; exponents, "inf" and surrounding blanks are left out.        *)
(***************************************************************************)
AllDigits(s) == \A i \in 1..Len(s) : s[i] \in Digit

DotAt(s) == {i \in 1..Len(s) : s[i] = "."}

IsNaNText(s) == s = <<"n", "a", "n">>

\* a numeral without sign: [ok, nan, ip, frac]
Unsigned(s) ==
    IF IsNaNText(s)
    THEN [ok |-> TRUE, nan |-> TRUE, ip |-> 0, frac |-> FALSE]
    ELSE IF s # <<>> /\ AllDigits(s)
    THEN [ok |-> TRUE, nan |-> FALSE, ip |-> DigitsToInt(s), frac |-> FALSE]
    ELSE IF Cardinality(DotAt(s)) = 1
    THEN LET d == CHOOSE i \in DotAt(s) : TRUE
             a == SubSeq(s, 1, d - 1)
             b == SubSeq(s, d + 1, Len(s))
         IN  IF AllDigits(a) /\ AllDigits(b) /\ Len(a) + Len(b) > 0
             THEN [ok |-> TRUE, nan |-> FALSE, ip |-> DigitsToInt(a),
                   frac |-> \E i \in 1..Len(b) : b[i] # "0"]
             ELSE [ok |-> FALSE, nan |-> FALSE, ip |-> 0, frac |-> FALSE]
    ELSE [ok |-> FALSE, nan |-> FALSE, ip |-> 0, frac |-> FALSE]

\* [ok, nan, neg, ip, frac]: ok = FALSE is Python's ValueError; neg is a
\* value below zero
float(s) ==
    LET signed == s # <<>> /\ s[1] \in {"-", "+"}
        u == Unsigned(IF signed THEN Tail(s) ELSE s)
    IN  [ok |-> u.ok, nan |-> u.nan,
         neg |-> u.ok /\ ~u.nan /\ signed /\ s[1] = "-" /\ (u.ip # 0 \/ u.frac),
         ip |-> u.ip, frac |-> u.frac]

(***************************************************************************)
(* Request validation (MpesaClient.validate_phone, validate_amount).       *)
(* A result is [ok, value, error]: ok = FALSE is a raised exception, whose *)
(* class is error.                                                         *)
(***************************************************************************)
validate_phoneBroken(phone) ==
    IF phone = <<>> THEN
        [ok |-> FALSE, value |-> <<>>, error |-> "ValidationError",
         msg |-> "Phone number is required"]
    ELSE
    LET clean == FilterDigits(phone)
        formatted ==
            IF StartsWith(clean, <<"0">>) THEN <<"2", "5", "4">> \o From(clean, 1)
            ELSE clean
    IN  IF clean = <<>> THEN
            [ok |-> FALSE, value |-> <<>>, error |-> "ValidationError",
             msg |-> "Phone number must contain digits"]
        ELSE IF Len(formatted) # 12 THEN
            [ok |-> FALSE, value |-> <<>>, error |-> "ValidationError",
             msg |-> "Phone number must be 12 digits (254XXXXXXXXX)"]
        ELSE [ok |-> TRUE, value |-> formatted, error |-> "", msg |-> ""]

\* validate_phone with the 254 branch rewriting to the local form, so that
\* the two forms of a number are exchanged at every call
validate_phoneFlip(phone) ==
    IF phone = <<>> THEN
        [ok |-> FALSE, value |-> <<>>, error |-> "ValidationError",
         msg |-> "Phone number is required"]
    ELSE
    LET clean == FilterDigits(phone)
        formatted ==
            IF StartsWith(clean, <<"0">>) THEN <<"2", "5", "4">> \o From(clean, 1)
            ELSE IF StartsWith(clean, <<"2", "5", "4">>) THEN <<"0">> \o From(clean, 3)
            ELSE IF StartsWith(clean, <<"7">>) THEN <<"2", "5", "4">> \o clean
            ELSE clean
    IN  IF clean = <<>> THEN
            [ok |-> FALSE, value |-> <<>>, error |-> "ValidationError",
             msg |-> "Phone number must contain digits"]
        ELSE IF Len(formatted) \notin {10, 12} THEN
            [ok |-> FALSE, value |-> <<>>, error |-> "ValidationError",
             msg |-> "Phone number must be 12 digits (254XXXXXXXXX)"]
        ELSE [ok |-> TRUE, value |-> formatted, error |-> "", msg |-> ""]

validate_phone(phone) ==
    IF phone = <<>> THEN
        [ok |-> FALSE, value |-> <<>>, error |-> "ValidationError",
         msg |-> "Phone number is required"]
    ELSE
    LET clean == FilterDigits(phone)
        formatted ==
            IF StartsWith(clean, <<"0">>) THEN <<"2", "5", "4">> \o From(clean, 1)
            ELSE IF StartsWith(clean, <<"2", "5", "4">>) THEN clean
            ELSE IF StartsWith(clean, <<"7">>) THEN <<"2", "5", "4">> \o clean
            ELSE IF StartsWith(clean, <<"+", "2", "5", "4">>) THEN From(clean, 1)
            ELSE clean
    IN  IF clean = <<>> THEN
            [ok |-> FALSE, value |-> <<>>, error |-> "ValidationError",
             msg |-> "Phone number must contain digits"]
        ELSE IF Len(formatted) # 12 THEN
            [ok |-> FALSE, value |-> <<>>, error |-> "ValidationError",
             msg |-> "Phone number must be 12 digits (254XXXXXXXXX)"]
        ELSE [ok |-> TRUE, value |-> formatted, error |-> "", msg |-> ""]

validate_amount(amount) ==
    LET amount_float == float(amount)
    IN  IF ~amount_float.ok THEN
            [ok |-> FALSE, value |-> 0, error |-> "ValidationError",
             msg |-> "Invalid amount format"]
        ELSE IF ~amount_float.nan
                /\ (amount_float.neg \/ amount_float.ip < 10) THEN
            [ok |-> FALSE, value |-> 0, error |-> "ValidationError",
             msg |-> "Amount must be at least KES 10"]
        ELSE IF ~amount_float.nan /\ ~amount_float.neg
                /\ (amount_float.ip > 150000
                    \/ (amount_float.ip = 150000 /\ amount_float.frac)) THEN
            [ok |-> FALSE, value |-> 0, error |-> "ValidationError",
             msg |-> "Amount cannot exceed KES 150,000"]
        ELSE IF amount_float.nan THEN
            \* int(nan) raises ValueError, which is not a ValidationError
            [ok |-> FALSE, value |-> 0, error |-> "ValueError",
             msg |-> "Unexpected error: cannot convert float NaN to integer"]
        ELSE [ok |-> TRUE, value |-> amount_float.ip, error |-> "", msg |-> ""]

(***************************************************************************)
(* The transactions store (src/database.py).  A row is                     *)
(* [id, user_name, phone_number, amount, receipt_number, status,           *)
(*  checkout_id]; NULL is None.  save_transaction's INSERT names no        *)
(* checkout_id, so the rows it writes hold NULL there.                     *)
(***************************************************************************)
\* a value of the amount column: integer part, and whether a fraction follows
Numeric(f) == [ip |-> f.ip, frac |-> f.frac]

\* normalize_phone: the formats a phone number is searched under
Dedup(formats) ==
    LET keep(i) == \A j \in 1..(i - 1) : formats[j] # formats[i]
        F[i \in 0..Len(formats)] ==
            IF i = 0 THEN <<>>
            ELSE IF keep(i) THEN Append(F[i - 1], formats[i]) ELSE F[i - 1]
    IN  F[Len(formats)]

normalize_phoneBroken(phone) ==
    IF FilterDigits(phone) = <<>> THEN <<>> ELSE <<FilterDigits(phone)>>

normalize_phone(phone) ==
    IF phone = <<>> THEN <<>>
    ELSE
    LET clean == FilterDigits(phone)
        f1 == IF clean # <<>> THEN <<clean>> ELSE <<>>
        f2 == IF StartsWith(clean, <<"0">>)
              THEN <<(<<"2", "5", "4">> \o From(clean, 1))>> ELSE <<>>
        f3 == IF StartsWith(clean, <<"2", "5", "4">>) /\ Len(clean) > 3
              THEN <<(<<"0">> \o From(clean, 3))>> ELSE <<>>
        f4 == IF StartsWith(clean, <<"7">>) /\ Len(clean) = 9
              THEN <<(<<"2", "5", "4">> \o clean), (<<"0">> \o clean)>> ELSE <<>>
    IN  Dedup(f1 \o f2 \o f3 \o f4)

\* The UNIQUE constraint on the receipt column: an INSERT or UPDATE that
\* would leave two rows with the same non-NULL receipt raises IntegrityError.
UniqueViolation(rows) ==
    \E i, j \in 1..Len(rows) :
        /\ i # j
        /\ rows[i].receipt_number # None
        /\ rows[i].receipt_number = rows[j].receipt_number

\* DatabaseConnection.get_connection around one block: `db_up` is whether
\* psycopg2.connect succeeds, `raised` whether the block raised.  The result
\* tells whether a connection was opened, whether it was closed again, and
\* whether the exception goes on to the caller.  Without the `finally`, a
\* block that raises leaves its connection open.
get_connectionBroken(db_up, raised) ==
    [opened |-> db_up, closed |-> db_up /\ ~raised, raises |-> ~db_up \/ raised]

get_connection(db_up, raised) ==
    [opened |-> db_up, closed |-> db_up, raises |-> ~db_up \/ raised]

\* DatabaseConnection.get_cursor around one statement: `before` are the
\* committed rows, `after` the rows the statement leaves, `error` whether
\* the connection or the statement raised.  Commit, or roll back and raise.
get_cursorBroken(before, after, error) == after

get_cursor(before, after, error) == IF error THEN before ELSE after

\* save_transaction: [rows, id]; id = None is the None it returns on any error
save_transactionBroken(rows, db_up, name, phone, amount, receipt, status) ==
    LET row == [id |-> Len(rows) + 1, user_name |-> name, phone_number |-> phone,
                amount |-> amount, receipt_number |-> receipt,
                status |-> "PENDING", checkout_id |-> None]
        after == Append(rows, row)
        error == ~db_up \/ UniqueViolation(after)
    IN  [rows |-> get_cursor(rows, after, error),
         id |-> IF error THEN None ELSE Some(row.id),
         conn |-> get_connection(db_up, db_up /\ UniqueViolation(after))]

save_transaction(rows, db_up, name, phone, amount, receipt, status) ==
    LET phone_formats == normalize_phone(phone)
        stored_phone == IF phone_formats # <<>> THEN phone_formats[1] ELSE phone
        row == [id |-> Len(rows) + 1, user_name |-> name,
                phone_number |-> stored_phone, amount |-> amount,
                receipt_number |-> receipt, status |-> status,
                checkout_id |-> None]
        after == Append(rows, row)
        error == ~db_up \/ UniqueViolation(after)
    IN  [rows |-> get_cursor(rows, after, error),
         id |-> IF error THEN None ELSE Some(row.id),
         conn |-> get_connection(db_up, db_up /\ UniqueViolation(after))]

\* get_transactions_by_phone: the rows stored under one of the formats of
\* `phone`, newest first (rows are inserted in the order of their dates), at
\* most `limit` of them; the empty list on any error
get_transactions_by_phone(rows, db_up, phone, limit) ==
    LET phone_formats == normalize_phone(phone)
        hit(i) == \E k \in 1..Len(phone_formats) :
                     phone_formats[k] = rows[i].phone_number
        dict(row) == [id |-> row.id, user_name |-> row.user_name,
                      phone |-> row.phone_number, amount |-> row.amount,
                      receipt |-> row.receipt_number, status |-> row.status]
        R[i \in 0..Len(rows)] ==
            IF i = 0 THEN <<>>
            ELSE (IF hit(i) THEN <<dict(rows[i])>> ELSE <<>>) \o R[i - 1]
        results == R[Len(rows)]
    IN  IF phone_formats = <<>> \/ ~db_up THEN <<>>
        ELSE SubSeq(results, 1, Min(limit, Len(results)))

\* get_transaction_by_receipt: the first matching row, or None
get_transaction_by_receipt(rows, db_up, receipt_number) ==
    LET hits == {i \in 1..Len(rows) : rows[i].receipt_number = Some(receipt_number)}
    IN  IF ~db_up \/ hits = {} THEN None
        ELSE Some(rows[CHOOSE i \in hits : \A j \in hits : i <= j])

\* update_transaction_by_checkout: [rows, success]
update_transaction_by_checkout(rows, db_up, column, checkout, real_receipt) ==
    LET hit(i) == rows[i].checkout_id = Some(checkout)
        after == [i \in 1..Len(rows) |->
                     IF hit(i)
                     THEN [rows[i] EXCEPT !.receipt_number = Some(real_receipt),
                                          !.status = "SUCCESS"]
                     ELSE rows[i]]
        error == ~db_up \/ UniqueViolation(after)
    IN  IF ~db_up THEN [rows |-> rows, success |-> FALSE]
        ELSE IF ~column THEN [rows |-> rows, success |-> TRUE]
        ELSE [rows |-> get_cursor(rows, after, error),
              success |-> ~error /\ \E i \in 1..Len(rows) : hit(i)]

(***************************************************************************)
(* Callbacks.  A callback body is {Body: {stkCallback: {CheckoutRequestID, *)
(* ResultCode, ResultDesc, CallbackMetadata: {Item: [{Name, Value}]}}}}.   *)
(* A missing CallbackMetadata and an empty Item list read the same in      *)
(* every handler (.get('CallbackMetadata', {}).get('Item', [])), so Item   *)
(* alone is kept.                                                          *)
(***************************************************************************)
CheckoutIds == {"ws_CO_1"}

\* the checkout ids the repository of callback_handler.py may hold
HandlerIds == {"ws_CO_1", "ws_CO_2"}

ReceiptA == <<"ABC123">>

ReceiptB == <<"XYZ789">>

PaidPhone == <<"2", "5", "4", "7", "0", "0", "0", "0", "0", "0", "0", "0">>

Item(name, value) == [Name |-> name, Value |-> value]

ItemLists ==
    { <<Item("Amount", <<"5", "0">>), Item("MpesaReceiptNumber", ReceiptA),
        Item("PhoneNumber", PaidPhone)>>,
      <<Item("Amount", <<"5", "0">>)>>,
      <<Item("MpesaReceiptNumber", <<>>)>>,
      <<Item("MpesaReceiptNumber", ReceiptA), Item("MpesaReceiptNumber", ReceiptB),
        Item("Amount", <<"0">>)>> }

Cancelled == "Request cancelled by user"

StkCallbacks(c) ==
    {[CheckoutRequestID |-> c, ResultCode |-> 0,
      ResultDesc |-> Some("The service request is processed successfully."),
      Item |-> items] : items \in ItemLists}
    \cup
    {[CheckoutRequestID |-> c, ResultCode |-> 1032, ResultDesc |-> Some(Cancelled),
      Item |-> <<>>],
     [CheckoutRequestID |-> c, ResultCode |-> 1, ResultDesc |-> Some(Cancelled),
      Item |-> <<>>],
     [CheckoutRequestID |-> c, ResultCode |-> 1,
      ResultDesc |-> Some("Callback timeout"), Item |-> <<>>],
     [CheckoutRequestID |-> c, ResultCode |-> 2001, ResultDesc |-> None,
      Item |-> <<>>]}

Body(stk) == [Body |-> [stkCallback |-> stk]]

\* Python truthiness of a metadata value: "" and None are <<>>, the number 0
\* is <<"0">>
Truthy(v) == v # <<>> /\ v # <<"0">>

\* the Value of the first item of that name (the webhook's loop breaks)
FirstValueOf(items, name) ==
    LET at == {i \in 1..Len(items) : items[i].Name = name}
    IN  IF at = {} THEN None
        ELSE items[CHOOSE i \in at : \A j \in at : i <= j].Value

\* the Value of the last item of that name (stk_push's loop runs to the end)
LastValueOfBroken(items, name) ==
    IF items = <<>> THEN None ELSE items[1].Value

LastValueOf(items, name) ==
    LET at == {i \in 1..Len(items) : items[i].Name = name}
    IN  IF at = {} THEN None
        ELSE items[CHOOSE i \in at : \A j \in at : i >= j].Value

(***************************************************************************)
(* The Inbox (src/fast/callback.py): callback_store maps a checkout id to  *)
(* None or to the entry the webhook stored.  The entry's 'timestamp' is    *)
(* not kept: no code reads it.                                             *)
(***************************************************************************)
\* the acknowledgement the gateway takes as "delivered"
Success == [ResultCode |-> 0, ResultDesc |-> "Success"]

InvalidCallbackData == [ResultCode |-> 1, ResultDesc |-> "Invalid callback data"]

\* A request to the webhook.  parses = FALSE is a body that is not JSON
\* (request.json() raises); is_dict = FALSE is JSON that is not an object
\* (callback_data.get raises); stkCallback = None is an object without
\* Body.stkCallback, or with an empty one; id_hashable = FALSE is a
\* CheckoutRequestID that cannot be a dictionary key (the store at line 128
\* raises).
Request(parses, is_dict, stk, id_hashable) ==
    [parses |-> parses, is_dict |-> is_dict, stkCallback |-> stk,
     id_hashable |-> id_hashable]

\* the request the gateway sends for the stkCallback stk
Delivery(stk) == Request(TRUE, TRUE, Some(stk), TRUE)

\* mpesa_callback (lines 105-164): [store, rows, reply]
mpesa_callback(store, rows, db_up, column, request) ==
    IF ~request.parses \/ ~request.is_dict
    THEN \* except Exception (lines 162-164)
         [store |-> store, rows |-> rows, reply |-> Success]
    ELSE IF request.stkCallback = None
    THEN [store |-> store, rows |-> rows, reply |-> InvalidCallbackData]
    ELSE IF ~request.id_hashable
    THEN [store |-> store, rows |-> rows, reply |-> Success]
    ELSE
    LET stk == request.stkCallback[1]
        id == stk.CheckoutRequestID
        entry == [received |-> TRUE, result_code |-> stk.ResultCode,
                  result_desc |-> stk.ResultDesc, full_data |-> Body(stk),
                  receipt |-> None, database_updated |-> FALSE]
        receipt == FirstValueOf(stk.Item, "MpesaReceiptNumber")
        upd == update_transaction_by_checkout(rows, db_up, column, id, receipt)
    IN  IF stk.ResultCode = 0 /\ Truthy(receipt)
        THEN [store |-> [store EXCEPT ![id] =
                            Some([entry EXCEPT !.receipt = Some(receipt),
                                               !.database_updated = upd.success])],
              rows |-> upd.rows, reply |-> Success]
        ELSE [store |-> [store EXCEPT ![id] = Some(entry)], rows |-> rows,
              reply |-> Success]

\* get_callback_status: {'received': True, 'data': entry} or {'received': False}
get_callback_statusBroken(store, id) ==
    IF \E c \in DOMAIN store : store[c] # None
    THEN [received |-> TRUE,
          data |-> store[CHOOSE c \in DOMAIN store : store[c] # None]]
    ELSE [received |-> FALSE, data |-> None]

get_callback_status(store, id) ==
    IF store[id] # None
    THEN [received |-> TRUE, data |-> store[id]]
    ELSE [received |-> FALSE, data |-> None]

(***************************************************************************)
(* MpesaClient (src/mpesa_client.py)                                       *)
(***************************************************************************)
\* a quarter-second count for a number of seconds
Seconds(n) == 4 * n

initial_poll_interval == 2

max_backoff == 8

stk_timeout_seconds == 120

\* poll_interval = min(poll_interval * 1.5, 8)
NextIntervalBroken(p) == p

NextInterval(p) == Min((p * 3) \div 2, Seconds(max_backoff))

\* What stk_push hands to its caller.  returned = "dict" is a dictionary with
\* the keys in `keys` (a field outside `keys` holds a filler), "None" is
\* Python's None, "no" is a call that has not returned.
Dict(keys, success, reason, receipt, checkout) ==
    [returned |-> "dict", keys |-> keys, success |-> success, reason |-> reason,
     receipt |-> receipt, checkout_id |-> checkout]

Failure(reason) == Dict({"success", "reason"}, FALSE, reason, <<>>, "")

PyNone ==
    [returned |-> "None", keys |-> {}, success |-> FALSE, reason |-> "",
     receipt |-> <<>>, checkout_id |-> ""]

NotReturned ==
    [returned |-> "no", keys |-> {}, success |-> FALSE, reason |-> "",
     receipt |-> <<>>, checkout_id |-> ""]

\* the branch of stk_push taken when no callback came back (lines 364-371)
TimeoutResultBroken(checkout) == Failure("Callback timeout")

TimeoutResult(checkout) ==
    Dict({"success", "reason", "checkout_id"}, FALSE, "Callback timeout", <<>>, checkout)

\* the else branch of `if stk_callback.get('ResultCode') == 0` (lines 360-363)
FailedResultBroken(stk) == Failure("Transaction failed")

FailedResult(stk) ==
    Failure(IF stk.ResultDesc # None THEN stk.ResultDesc[1] ELSE "Transaction failed")

\* the rows `if receipt:` leaves behind (lines 336-348)
SaveOnSuccess(rows, db_up, phone, amount, stk) ==
    LET receipt == LastValueOf(stk.Item, "MpesaReceiptNumber")
        amount_paid == LastValueOf(stk.Item, "Amount")
        phone_paid == LastValueOf(stk.Item, "PhoneNumber")
        phone_str == IF Truthy(phone_paid) THEN phone_paid ELSE <<>>
        amount_str == IF Truthy(amount_paid) THEN amount_paid ELSE <<>>
    IN  save_transaction(rows, db_up,
            <<"Customer-">> \o Last4(IF phone_str # <<>> THEN phone_str ELSE phone),
            IF phone_str # <<>> THEN phone_str ELSE phone,
            IF amount_str # <<>> THEN Numeric(float(amount_str))
                                 ELSE Numeric([ip |-> amount, frac |-> FALSE]),
            Some(receipt), "SUCCESS").rows

\* stk_push inside `if callback_data:` (lines 314-363): [result, rows]
on_callback(data, checkout, phone, amount, rows, db_up) ==
    LET stk_callback == data[1].full_data.Body.stkCallback
        receipt == LastValueOf(stk_callback.Item, "MpesaReceiptNumber")
    IN  IF stk_callback.ResultCode = 0 THEN
            IF Truthy(receipt) THEN
                [result |-> Dict({"success", "receipt", "checkout_id"}, TRUE, "",
                                 receipt, checkout),
                 rows |-> SaveOnSuccess(rows, db_up, phone, amount, stk_callback)]
            ELSE \* no return statement is reached: the call returns None
                [result |-> PyNone, rows |-> rows]
        ELSE [result |-> FailedResult(stk_callback), rows |-> rows]

\* stk_push from `if callback_data:` to its return (lines 313-371):
\* [result, rows]
after_waitBroken(data, checkout, phone, amount, rows, db_up) ==
    IF data = None
    THEN [result |-> TimeoutResult(checkout),
          rows |-> save_transaction(rows, db_up, <<"Customer-">> \o Last4(phone),
                                    phone, Numeric([ip |-> amount, frac |-> FALSE]),
                                    None, "TIMEOUT").rows]
    ELSE on_callback(data, checkout, phone, amount, rows, db_up)

after_wait(data, checkout, phone, amount, rows, db_up) ==
    IF data = None
    THEN [result |-> TimeoutResult(checkout), rows |-> rows]
    ELSE on_callback(data, checkout, phone, amount, rows, db_up)

(***************************************************************************)
(* MpesaClient.get_access_token (src/mpesa_client.py lines 94-128) and the *)
(* token cache of one client.  Time is in minutes.  A token is the minute  *)
(* at which the gateway issued it.  A call takes seconds (the request has  *)
(* timeout=10), so the clock moves only between calls.                     *)
(***************************************************************************)
\* the callers that share one client
Threads == {1, 2}

\* timedelta(minutes=50), line 120
token_ttl_minutes == 50

\* the lifetime of a token the gateway issues
token_lifetime_minutes == 60

\* one step of the clock
TickMinutes == 10

\* the clock stops here
MaxNow == 70

\* tret of a caller: state is "none" (never called), "running", "returned" or
\* "raised"; token is what a call returned; fetched says whether the call
\* sent a request to the gateway; at is the minute it returned
NotCalled == [state |-> "none", token |-> None, fetched |-> FALSE, at |-> 0]

Running == [state |-> "running", token |-> None, fetched |-> FALSE, at |-> 0]

\* the client as __init__ leaves it (lines 60-62)
TokenIdle ==
    /\ access_token = None
    /\ token_expiry = None
    /\ now = 0
    /\ tpc = [t \in Threads |-> "idle"]
    /\ tret = [t \in Threads |-> NotCalled]

\* no call of stk_push has been made
FlowIdle ==
    /\ stk_args = None
    /\ response = None
    /\ trail = <<>>

nonTokenVars == <<clientVars, callback_store, transactions, has_column,
                  inbox_reliable, mpesa_transactions, ack, call, ret, seen,
                  timeout_seconds>>

\* the test of line 101
cache_valid ==
    /\ access_token # None
    /\ token_expiry # None
    /\ now < token_expiry[1]

\* get_access_token is called and tests the cache (line 101)
TokenCall(t) ==
    /\ tpc[t] = "idle"
    /\ tpc' = [tpc EXCEPT ![t] = IF cache_valid THEN "return" ELSE "request"]
    /\ tret' = [tret EXCEPT ![t] = Running]
    /\ UNCHANGED <<access_token, token_expiry, now, nonTokenVars>>

\* the request is answered (lines 107-116): "token" is a 200 with an
\* access_token, "no_token" a 200 without one, "non200" another status,
\* "error" a request that raised
TokenFetch(t, reply) ==
    /\ tpc[t] = "request"
    /\ IF reply \in {"token", "no_token"}
       THEN /\ access_token' = IF reply = "token" THEN Some(now) ELSE None
            /\ tpc' = [tpc EXCEPT ![t] = "check"]
            /\ tret' = [tret EXCEPT ![t].fetched = TRUE]
       ELSE /\ tpc' = [tpc EXCEPT ![t] = "idle"]
            /\ tret' = [tret EXCEPT ![t] = [state |-> "raised", token |-> None,
                                            fetched |-> TRUE, at |-> now]]
            /\ UNCHANGED access_token
    /\ UNCHANGED <<token_expiry, now, nonTokenVars>>

\* `if not self._access_token: raise` (lines 116-117, 127-128)
TokenCheck(t) ==
    /\ tpc[t] = "check"
    /\ IF access_token = None
       THEN /\ tpc' = [tpc EXCEPT ![t] = "idle"]
            /\ tret' = [tret EXCEPT ![t] = [state |-> "raised", token |-> None,
                                            fetched |-> TRUE, at |-> now]]
       ELSE /\ tpc' = [tpc EXCEPT ![t] = "stamp"]
            /\ UNCHANGED tret
    /\ UNCHANGED <<access_token, token_expiry, now, nonTokenVars>>

\* self._token_expiry = datetime.now() + timedelta(minutes=50) (line 120)
TokenStampBroken(t) ==
    /\ tpc[t] = "stamp"
    /\ token_expiry' = Some(now + token_lifetime_minutes + TickMinutes)
    /\ tpc' = [tpc EXCEPT ![t] = "return"]
    /\ UNCHANGED <<access_token, now, tret, nonTokenVars>>

TokenStamp(t) ==
    /\ tpc[t] = "stamp"
    /\ token_expiry' = Some(now + token_ttl_minutes)
    /\ tpc' = [tpc EXCEPT ![t] = "return"]
    /\ UNCHANGED <<access_token, now, tret, nonTokenVars>>

\* `return self._access_token` (lines 102 and 123)
TokenReturn(t) ==
    /\ tpc[t] = "return"
    /\ tpc' = [tpc EXCEPT ![t] = "idle"]
    /\ tret' = [tret EXCEPT ![t].state = "returned", ![t].token = access_token,
                            ![t].at = now]
    /\ UNCHANGED <<access_token, token_expiry, now, nonTokenVars>>

\* time passes while no call is under way
Tick ==
    /\ \A t \in Threads : tpc[t] = "idle"
    /\ now < MaxNow
    /\ now' = now + TickMinutes
    /\ UNCHANGED <<access_token, token_expiry, tpc, tret, nonTokenVars>>

(***************************************************************************)
(* The state machine of one client, one callback server and one database.  *)
(***************************************************************************)
\* the polls of one wait that may raise
MaxPollErrors == 2

Phone0712 == <<"0", "7", "1", "2", "3", "4", "5", "6", "7", "8">>

PhoneInputs == {Phone0712, <<"1", "2", "3", "4", "5">>, <<>>}

AmountInputs == {<<"1", "0", "0">>, <<"9">>, <<"a", "b", "c">>, <<"n", "a", "n">>}

\* the rows an earlier successful payment left in the table
EarlierRows ==
    {<<>>,
     save_transaction(<<>>, TRUE, <<"Customer-">> \o Last4(PaidPhone), PaidPhone,
                      Numeric(float(<<"5", "0">>)), Some(ReceiptA), "SUCCESS").rows}

NoRows == [c \in HandlerIds |-> None]

Init ==
    /\ pc = "idle"
    /\ formatted_phone = <<>>
    /\ validated_amount = 0
    /\ checkout_id = ""
    /\ elapsed = 0
    /\ poll_interval = 0
    /\ poll_raised = FALSE
    /\ poll_errors = 0
    /\ attempts = 0
    /\ callback_data = None
    /\ rows_before = <<>>
    /\ result = NotReturned
    /\ callback_store = [c \in CheckoutIds |-> None]
    /\ transactions \in EarlierRows
    /\ has_column \in BOOLEAN
    /\ inbox_reliable \in BOOLEAN
    /\ mpesa_transactions = NoRows
    /\ ack = None
    /\ call = None
    /\ ret = NoReturn
    /\ seen = <<>>
    /\ FlowIdle
    /\ timeout_seconds = stk_timeout_seconds
    /\ TokenIdle

waitVars == <<elapsed, poll_interval, poll_raised, poll_errors, attempts>>

\* what no step of the client writes
storeVars == <<callback_store, transactions, has_column, inbox_reliable,
               mpesa_transactions, ack, call, ret, tokenVars, timeout_seconds>>

\* the trail with `effect` noted at its first occurrence
Log(t, effect) ==
    IF \E i \in 1..Len(t) : t[i] = effect THEN t ELSE Append(t, effect)

\* stk_push returns `r` before it has waited for anything
ReturnEarlyBroken(r) ==
    /\ pc' = "done"
    /\ result' = r
    /\ transactions' =
          save_transaction(transactions, TRUE, <<"Customer-">>, Phone0712,
                           Numeric(float(<<"0">>)), None, "FAILED").rows
    /\ UNCHANGED <<formatted_phone, validated_amount, checkout_id, callback_data,
                   waitVars, seen, callback_store, has_column, inbox_reliable,
                   mpesa_transactions, ack, call, ret, tokenVars, timeout_seconds>>

ReturnEarly(r) ==
    /\ pc' = "done"
    /\ result' = r
    /\ UNCHANGED <<formatted_phone, validated_amount, checkout_id, callback_data,
                   waitVars, seen, storeVars>>

\* stk_push is called: inputs are validated (lines 243-248, 373-382)
StkPush(phone, amount) ==
    /\ pc = "idle"
    /\ rows_before' = transactions
    /\ stk_args' = Some([phone |-> phone, amount |-> amount])
    /\ UNCHANGED <<response, trail>>
    /\ LET p == validate_phone(phone)
           a == validate_amount(amount)
       IN  IF ~p.ok THEN ReturnEarly(Failure(p.msg))
           ELSE IF ~a.ok THEN ReturnEarly(Failure(a.msg))
           ELSE /\ pc' = "token"
                /\ formatted_phone' = p.value
                /\ validated_amount' = a.value
                /\ UNCHANGED <<checkout_id, callback_data, result, waitVars, seen,
                               storeVars>>

\* get_access_token returns a token or raises MpesaAPIError (lines 251, 376-378)
GetToken(ok) ==
    /\ pc = "token"
    /\ trail' = Log(trail, "token")
    /\ UNCHANGED <<rows_before, stk_args, response>>
    /\ IF ok
       THEN /\ pc' = "initiate"
            /\ UNCHANGED <<formatted_phone, validated_amount, checkout_id,
                           callback_data, result, waitVars, seen, storeVars>>
       ELSE ReturnEarly(Failure("Token generation failed"))

\* A reply of the gateway's initiation endpoint.  status "error" is a request
\* that raised; errorMessage and ResponseDescription are optional keys of the
\* body; has_id says whether the body carries CheckoutRequestID.
GatewayReply(status, code, msg, desc, has_id) ==
    [status |-> status, ResponseCode |-> code, errorMessage |-> msg,
     ResponseDescription |-> desc, has_id |-> has_id]

GatewayReplies ==
    {GatewayReply(st, "0", None, Some("Success. Request accepted for processing"),
                  TRUE) : st \in {"200", "201", "400", "500"}}
    \cup {GatewayReply("200", "0", None, None, FALSE),
          GatewayReply("200", "1", Some("Invalid PhoneNumber"), Some("Rejected"), FALSE),
          GatewayReply("200", "1", None, Some("Rejected"), FALSE),
          GatewayReply("200", "1", None, None, FALSE),
          GatewayReply("400", "1", Some("Bad Request - Invalid Amount"), None, FALSE),
          GatewayReply("error", "", None, None, FALSE)}

\* the statuses the session retries (lines 75-80); when the retries are used
\* up session.post raises
status_forcelist == {"429", "500", "502", "503", "504"}

\* f"HTTP {response.status_code}: {response.text}" (line 293); the text of a
\* reply is its errorMessage, or nothing
HttpReason(reply) ==
    CASE reply.status = "201" -> "HTTP 201: "
      [] reply.status = "400" /\ reply.errorMessage = None -> "HTTP 400: "
      [] reply.status = "400" -> "HTTP 400: Bad Request - Invalid Amount"
      [] OTHER -> "HTTP"

\* data.get('errorMessage', data.get('ResponseDescription', 'Unknown error'))
error_msg(reply) ==
    IF reply.errorMessage # None THEN reply.errorMessage[1]
    ELSE IF reply.ResponseDescription # None THEN reply.ResponseDescription[1]
    ELSE "Unknown error"

\* what stk_push makes of the reply (lines 281-303, 379-382):
\* [accepted, reason]
stk_replyBroken(reply) ==
    IF reply.status = "error" \/ reply.status \in status_forcelist
    THEN [accepted |-> FALSE, reason |-> "Unexpected error"]
    ELSE IF reply.status \notin {"200", "201"}
    THEN [accepted |-> FALSE, reason |-> HttpReason(reply)]
    ELSE IF reply.ResponseCode # "0"
    THEN [accepted |-> FALSE, reason |-> error_msg(reply)]
    ELSE IF ~reply.has_id
    THEN [accepted |-> FALSE, reason |-> "Unexpected error"]
    ELSE [accepted |-> TRUE, reason |-> ""]

stk_reply(reply) ==
    IF reply.status = "error" \/ reply.status \in status_forcelist
    THEN [accepted |-> FALSE, reason |-> "Unexpected error"]
    ELSE IF reply.status # "200"
    THEN [accepted |-> FALSE, reason |-> HttpReason(reply)]
    ELSE IF reply.ResponseCode # "0"
    THEN [accepted |-> FALSE, reason |-> error_msg(reply)]
    ELSE IF ~reply.has_id   \* data['CheckoutRequestID'] raises KeyError
    THEN [accepted |-> FALSE, reason |-> "Unexpected error"]
    ELSE [accepted |-> TRUE, reason |-> ""]

\* the STK push request is sent and answered (lines 281-303)
InitiateBroken(reply, c) ==
    /\ pc = "initiate"
    /\ response' = Some(reply)
    /\ trail' = Log(trail, "initiate")
    /\ UNCHANGED <<rows_before, stk_args>>
    /\ IF ~stk_reply(reply).accepted
       THEN ReturnEarly(Failure(stk_reply(reply).reason))
       ELSE /\ pc' = "health"
            /\ checkout_id' = c
            /\ transactions' =
                  save_transaction(transactions, TRUE,
                                   <<"Customer-">> \o Last4(formatted_phone),
                                   formatted_phone,
                                   Numeric([ip |-> validated_amount, frac |-> FALSE]),
                                   None, "PENDING").rows
            /\ UNCHANGED <<formatted_phone, validated_amount, callback_data, result,
                           waitVars, seen, callback_store, has_column,
                           inbox_reliable, mpesa_transactions, ack, call, ret,
                           tokenVars, timeout_seconds>>

Initiate(reply, c) ==
    /\ pc = "initiate"
    /\ response' = Some(reply)
    /\ trail' = Log(trail, "initiate")
    /\ UNCHANGED <<rows_before, stk_args>>
    /\ IF ~stk_reply(reply).accepted
       THEN ReturnEarly(Failure(stk_reply(reply).reason))
       ELSE /\ pc' = "health"
            /\ checkout_id' = c
            /\ UNCHANGED <<formatted_phone, validated_amount, callback_data, result,
                           waitVars, seen, storeVars>>

\* wait_for_callback returns `data`: its locals are gone
ReturnFromWait(data) ==
    /\ pc' = "process"
    /\ callback_data' = data
    /\ elapsed' = 0
    /\ poll_interval' = 0
    /\ poll_raised' = FALSE
    /\ poll_errors' = 0
    /\ attempts' = 0
    /\ seen' = IF data = None THEN seen ELSE Append(seen, data[1])

\* wait_for_callback up to its loop (lines 186-205); the loop's first test
\* (0 < timeout_seconds) passes
HealthCheck(health) ==
    /\ pc = "health"
    /\ inbox_reliable => health = "200"
    /\ trail' = Log(trail, "health")
    /\ IF health = "ConnectionError"
       THEN ReturnFromWait(None)
       ELSE /\ pc' = "poll"
            /\ elapsed' = 0
            /\ poll_interval' = Seconds(initial_poll_interval)
            /\ UNCHANGED <<callback_data, poll_raised, poll_errors, attempts, seen>>
    /\ UNCHANGED <<formatted_phone, validated_amount, checkout_id, rows_before,
                   result, stk_args, response, storeVars>>

\* one poll of the status endpoint (lines 211-225, 230-231)
PollBroken(reply) ==
    /\ pc = "poll"
    /\ inbox_reliable => reply = "200"
    /\ reply = "error" => poll_errors < MaxPollErrors
    /\ trail' = Log(trail, "poll")
    /\ LET data == get_callback_status(callback_store, checkout_id)
       IN  IF reply = "200" /\ data.received
           THEN /\ ReturnFromWait(data.data)
                /\ callback_store' = [callback_store EXCEPT ![checkout_id] = None]
           ELSE /\ pc' = "sleep"
                /\ poll_raised' = (reply = "error")
                /\ poll_errors' = IF reply = "error" THEN poll_errors + 1
                                                     ELSE poll_errors
                /\ attempts' = attempts + 1
                /\ UNCHANGED <<callback_data, elapsed, poll_interval, seen,
                               callback_store>>
    /\ UNCHANGED <<formatted_phone, validated_amount, checkout_id, rows_before,
                   result, stk_args, response, transactions, has_column,
                   inbox_reliable, mpesa_transactions, ack, call, ret, tokenVars, timeout_seconds>>

\* `cap` is the number of polls of one wait that may raise
PollWith(reply, cap) ==
    /\ pc = "poll"
    /\ inbox_reliable => reply = "200"
    /\ reply = "error" => poll_errors < cap
    /\ trail' = Log(trail, "poll")
    /\ LET data == get_callback_status(callback_store, checkout_id)
       IN  IF reply = "200" /\ data.received
           THEN ReturnFromWait(data.data)
           ELSE /\ pc' = "sleep"
                /\ poll_raised' = (reply = "error")
                /\ poll_errors' = IF reply = "error" THEN poll_errors + 1
                                                     ELSE poll_errors
                /\ attempts' = attempts + 1
                /\ UNCHANGED <<callback_data, elapsed, poll_interval, seen>>
    /\ UNCHANGED <<formatted_phone, validated_amount, checkout_id, rows_before,
                   result, stk_args, response, storeVars>>

Poll(reply) == PollWith(reply, MaxPollErrors)

\* the sleep after a poll without result, and the loop's next test
\* (lines 227-228, 232, 207, 234-236)
SleepBroken ==
    /\ pc = "sleep"
    /\ IF elapsed < Seconds(timeout_seconds)
       THEN /\ pc' = "poll"
            /\ elapsed' = elapsed
            /\ poll_interval' =
                  IF poll_raised THEN poll_interval ELSE NextInterval(poll_interval)
            /\ poll_raised' = FALSE
            /\ UNCHANGED <<callback_data, poll_errors, attempts, seen>>
       ELSE ReturnFromWait(None)
    /\ UNCHANGED <<formatted_phone, validated_amount, checkout_id, rows_before,
                   result, stk_args, response, trail, storeVars>>

Sleep ==
    /\ pc = "sleep"
    /\ IF elapsed + poll_interval < Seconds(timeout_seconds)
       THEN /\ pc' = "poll"
            /\ elapsed' = elapsed + poll_interval
            /\ poll_interval' =
                  IF poll_raised THEN poll_interval ELSE NextInterval(poll_interval)
            /\ poll_raised' = FALSE
            /\ UNCHANGED <<callback_data, poll_errors, attempts, seen>>
       ELSE ReturnFromWait(None)
    /\ UNCHANGED <<formatted_phone, validated_amount, checkout_id, rows_before,
                   result, stk_args, response, trail, storeVars>>

\* stk_push reaches its call of save_transaction (lines 314-348)
saves(data) ==
    /\ data # None
    /\ data[1].full_data.Body.stkCallback.ResultCode = 0
    /\ Truthy(LastValueOf(data[1].full_data.Body.stkCallback.Item,
                          "MpesaReceiptNumber"))

\* stk_push after the wait (lines 313-371)
AfterWaitBroken(db_up) ==
    /\ pc = "process"
    /\ LET out == after_wait(callback_data, checkout_id, formatted_phone,
                             validated_amount, transactions, db_up)
       IN  /\ result' = out.result
           /\ transactions' = out.rows
    /\ pc' = IF callback_data = None THEN "poll" ELSE "done"
    /\ trail' = IF saves(callback_data) THEN Log(trail, "save") ELSE trail
    /\ UNCHANGED <<formatted_phone, validated_amount, checkout_id, callback_data,
                   waitVars, seen, rows_before, stk_args, response,
                   callback_store, has_column, inbox_reliable,
                   mpesa_transactions, ack, call, ret, tokenVars, timeout_seconds>>

AfterWait(db_up) ==
    /\ pc = "process"
    /\ LET out == after_wait(callback_data, checkout_id, formatted_phone,
                             validated_amount, transactions, db_up)
       IN  /\ result' = out.result
           /\ transactions' = out.rows
    /\ pc' = "done"
    /\ trail' = IF saves(callback_data) THEN Log(trail, "save") ELSE trail
    /\ UNCHANGED <<formatted_phone, validated_amount, checkout_id, callback_data,
                   waitVars, seen, rows_before, stk_args, response,
                   callback_store, has_column, inbox_reliable,
                   mpesa_transactions, ack, call, ret, tokenVars, timeout_seconds>>

\* POST /mpesa/callback (fast/callback.py lines 105-164)
Webhook(request, db_up) ==
    /\ LET out == mpesa_callback(callback_store, transactions, db_up, has_column,
                                 request)
       IN  /\ callback_store' = out.store
           /\ transactions' = out.rows
           /\ ack' = Some(out.reply)
    /\ seen' = <<>>
    /\ UNCHANGED <<clientVars, has_column, inbox_reliable, mpesa_transactions,
                   call, ret, tokenVars, timeout_seconds>>

\* the gateway posts a callback for a checkout id it has issued
Callback(stk, db_up) ==
    /\ checkout_id = stk.CheckoutRequestID
    /\ Webhook(Delivery(stk), db_up)

Next ==
    \/ \E phone \in PhoneInputs, amount \in AmountInputs : StkPush(phone, amount)
    \/ \E ok \in BOOLEAN : GetToken(ok)
    \/ \E reply \in GatewayReplies, c \in CheckoutIds : Initiate(reply, c)
    \/ \E health \in {"200", "503", "ConnectionError", "Timeout"} : HealthCheck(health)
    \/ \E reply \in {"200", "non200", "error"} : Poll(reply)
    \/ Sleep
    \/ \E db_up \in BOOLEAN : AfterWait(db_up)
    \/ \E c \in CheckoutIds : \E stk \in StkCallbacks(c), db_up \in BOOLEAN :
          Callback(stk, db_up)

Spec == Init /\ [][Next]_vars

(***************************************************************************)
(* The second webhook (src/callback_handler.py), which writes each         *)
(* callback's outcome into the repository row of its checkout id.          *)
(* TransactionRepository is imported from a module that is not among the   *)
(* sources: a row is created PENDING when a payment is initiated           *)
(* (models.py line 21 lists the statuses) and update_transaction sets the  *)
(* given columns of the row with that checkout_request_id.                 *)
(***************************************************************************)
\* str(result_code)
str_code(n) ==
    CASE n = 0 -> "0" [] n = 1 -> "1" [] n = 1032 -> "1032" [] n = 2001 -> "2001"

\* update_data as mpesa_callback builds it (lines 60-89); a key that is not
\* set is None
update_data(stk) ==
    LET base == [result_code |-> Some(str_code(stk.ResultCode)),
                 result_desc |-> stk.ResultDesc,
                 mpesa_receipt_number |-> None, phone_number |-> None,
                 amount |-> None, status |-> None]
        has(name) == \E i \in 1..Len(stk.Item) : stk.Item[i].Name = name
        val(name) == IF has(name) THEN Some(LastValueOf(stk.Item, name)) ELSE None
    IN  IF stk.ResultCode = 0 THEN
            [base EXCEPT !.mpesa_receipt_number = val("MpesaReceiptNumber"),
                         !.phone_number = val("PhoneNumber"),
                         !.amount = val("Amount"),
                         !.status = Some("COMPLETED")]
        ELSE IF stk.ResultCode = 1032 THEN [base EXCEPT !.status = Some("CANCELLED")]
        ELSE [base EXCEPT !.status = Some("FAILED")]

PendingRow ==
    [result_code |-> None, result_desc |-> None, mpesa_receipt_number |-> None,
     phone_number |-> None, amount |-> None, status |-> Some("PENDING")]

\* TransactionRepository.update_transaction
update_transaction(repo, id, data) ==
    IF repo[id] = None THEN repo
    ELSE [repo EXCEPT ![id] =
            Some([k \in DOMAIN data |->
                    IF data[k] # None THEN data[k] ELSE repo[id][1][k]])]

\* a payment is initiated: its row is created PENDING
HandlerCreate(c) ==
    /\ mpesa_transactions[c] = None
    /\ mpesa_transactions' = [mpesa_transactions EXCEPT ![c] = Some(PendingRow)]
    /\ UNCHANGED <<clientVars, callback_store, transactions, has_column,
                   inbox_reliable, ack, call, ret, seen, tokenVars, timeout_seconds>>

\* POST /api/mpesa/callback (lines 39-106)
HandlerCallback(stk) ==
    /\ mpesa_transactions' =
          update_transaction(mpesa_transactions, stk.CheckoutRequestID,
                             update_data(stk))
    /\ ack' = Some(Success)
    /\ UNCHANGED <<clientVars, callback_store, transactions, has_column,
                   inbox_reliable, call, ret, seen, tokenVars, timeout_seconds>>

InitHandler ==
    /\ pc = "idle"
    /\ formatted_phone = <<>>
    /\ validated_amount = 0
    /\ checkout_id = ""
    /\ elapsed = 0
    /\ poll_interval = 0
    /\ poll_raised = FALSE
    /\ poll_errors = 0
    /\ attempts = 0
    /\ callback_data = None
    /\ rows_before = <<>>
    /\ result = NotReturned
    /\ callback_store = [c \in CheckoutIds |-> None]
    /\ transactions = <<>>
    /\ has_column = FALSE
    /\ inbox_reliable = TRUE
    /\ mpesa_transactions = NoRows
    /\ ack = None
    /\ call = None
    /\ ret = NoReturn
    /\ seen = <<>>
    /\ FlowIdle
    /\ timeout_seconds = stk_timeout_seconds
    /\ TokenIdle

NextHandler ==
    \/ \E c \in HandlerIds : HandlerCreate(c)
    \/ \E c \in HandlerIds : \E stk \in StkCallbacks(c) : HandlerCallback(stk)

SpecHandler == InitHandler /\ [][NextHandler]_vars

(***************************************************************************)
(* The store on its own: rows are recorded as stk_push records them and    *)
(* looked up as the menu of main.py looks them up (lines 183, 192, 225,    *)
(* 238).  `call` is [fn, arg, limit, db_up, saved]; db_up = FALSE is a     *)
(* database that cannot be reached during the call.                        *)
(***************************************************************************)
\* the rows the table may hold
MaxRows == 3

Phone254 == <<"2", "5", "4", "7", "1", "2", "3", "4", "5", "6", "7", "8">>

Phone712 == <<"7", "1", "2", "3", "4", "5", "6", "7", "8">>

QueryPhones == {Phone0712, Phone254, Phone712, PaidPhone, <<>>}

Receipts == {ReceiptA, ReceiptB}

\* limit=20 is what main.py asks for; 1 is a limit that cuts the result
Limits == {1, 20}

Called(fn, arg, limit, db_up) ==
    Some([fn |-> fn, arg |-> arg, limit |-> limit, db_up |-> db_up,
          saved |-> None])

\* a call of save_transaction: `saved` holds the five values passed
CalledSave(name, phone, amount, receipt, status, db_up) ==
    Some([fn |-> "save_transaction", arg |-> phone, limit |-> 0, db_up |-> db_up,
          saved |-> Some([user_name |-> name, phone_number |-> phone,
                          amount |-> amount, receipt_number |-> receipt,
                          status |-> status])])

\* no call of stk_push is under way
ClientIdle ==
    /\ pc = "idle"
    /\ formatted_phone = <<>>
    /\ validated_amount = 0
    /\ checkout_id = ""
    /\ elapsed = 0
    /\ poll_interval = 0
    /\ poll_raised = FALSE
    /\ poll_errors = 0
    /\ attempts = 0
    /\ callback_data = None
    /\ rows_before = <<>>
    /\ result = NotReturned

queryFrame == <<clientVars, callback_store, has_column, inbox_reliable,
                mpesa_transactions, ack, seen, tokenVars, timeout_seconds>>

\* a confirmed payment is recorded (mpesa_client.py lines 342-348)
Record(phone, amount, receipt, db_up) ==
    /\ Len(transactions) < MaxRows
    /\ LET name == <<"Customer-">> \o Last4(phone)
           out == save_transaction(transactions, db_up, name, phone,
                                   Numeric(float(amount)), Some(receipt), "SUCCESS")
       IN  /\ transactions' = out.rows
           /\ ret' = [NoReturn EXCEPT !.id = out.id, !.conn = Some(out.conn)]
           /\ call' = CalledSave(name, phone, Numeric(float(amount)), receipt,
                                 "SUCCESS", db_up)
    /\ UNCHANGED queryFrame

\* main.py lines 183 and 238
FindByPhone(phone, limit, db_up) ==
    /\ ret' = [NoReturn EXCEPT
                  !.list = get_transactions_by_phone(transactions, db_up, phone, limit)]
    /\ call' = Called("get_transactions_by_phone", phone, limit, db_up)
    /\ UNCHANGED <<queryFrame, transactions>>

\* main.py lines 192 and 225
FindByReceipt(receipt_number, db_up) ==
    /\ ret' = [NoReturn EXCEPT
                  !.row = get_transaction_by_receipt(transactions, db_up, receipt_number)]
    /\ call' = Called("get_transaction_by_receipt", receipt_number, 0, db_up)
    /\ UNCHANGED <<queryFrame, transactions>>

InitStore ==
    /\ ClientIdle
    /\ callback_store = [c \in CheckoutIds |-> None]
    /\ transactions = <<>>
    /\ has_column = FALSE
    /\ inbox_reliable = TRUE
    /\ mpesa_transactions = NoRows
    /\ ack = None
    /\ call = None
    /\ ret = NoReturn
    /\ seen = <<>>
    /\ FlowIdle
    /\ timeout_seconds = stk_timeout_seconds
    /\ TokenIdle

\* the phone numbers and amounts payments are recorded with
RecordPhones == {Phone0712, Phone254, <<"+">> \o Phone254}

RecordAmounts == {<<"5", "0">>, <<"1", "0", ".", "5">>}

NextStore ==
    \/ \E phone \in RecordPhones, amount \in RecordAmounts, receipt \in Receipts,
          db_up \in BOOLEAN :
          Record(phone, amount, receipt, db_up)
    \/ \E phone \in QueryPhones, limit \in Limits, db_up \in BOOLEAN :
          FindByPhone(phone, limit, db_up)
    \/ \E receipt \in Receipts, db_up \in BOOLEAN : FindByReceipt(receipt, db_up)

SpecStore == InitStore /\ [][NextStore]_vars

(***************************************************************************)
(* The webhook of fast/callback.py on its own, facing every kind of        *)
(* request, in front of a table whose rows may carry a checkout id.  No    *)
(* code of src/ writes the checkout_id column that                         *)
(* update_transaction_by_checkout matches on: the rows that carry one were *)
(* saved PENDING when the payment was initiated (main.py lines 98-102      *)
(* announce that their receipt "will be updated automatically").           *)
(***************************************************************************)
\* a second confirmation of the same checkout id, with another receipt
WebhookCallbacks(c) ==
    StkCallbacks(c)
    \cup {[CheckoutRequestID |-> c, ResultCode |-> 0,
           ResultDesc |-> Some("The service request is processed successfully."),
           Item |-> <<Item("MpesaReceiptNumber", ReceiptB)>>]}

Requests ==
    {Delivery(stk) : stk \in UNION {WebhookCallbacks(c) : c \in CheckoutIds}}
    \cup {Request(FALSE, FALSE, None, TRUE),
          Request(TRUE, FALSE, None, TRUE),
          Request(TRUE, TRUE, None, TRUE)}
    \cup {Request(TRUE, TRUE, Some(stk), FALSE) :
             stk \in UNION {WebhookCallbacks(c) : c \in CheckoutIds}}

\* the row saved for a payment that was initiated and is not confirmed yet
PendingTx(id, c) ==
    [id |-> id, user_name |-> <<"Customer-">> \o Last4(Phone254),
     phone_number |-> Phone254, amount |-> Numeric(float(<<"1", "0", "0">>)),
     receipt_number |-> None, status |-> "PENDING", checkout_id |-> Some(c)]

InitWebhook ==
    /\ ClientIdle
    /\ callback_store = [c \in CheckoutIds |-> None]
    /\ transactions \in
          EarlierRows
          \cup {Append(rows, PendingTx(Len(rows) + 1, c)) :
                   rows \in EarlierRows, c \in CheckoutIds}
    /\ has_column \in BOOLEAN
    /\ inbox_reliable = TRUE
    /\ mpesa_transactions = NoRows
    /\ ack = None
    /\ call = None
    /\ ret = NoReturn
    /\ seen = <<>>
    /\ FlowIdle
    /\ timeout_seconds = stk_timeout_seconds
    /\ TokenIdle

NextWebhook == \E request \in Requests, db_up \in BOOLEAN : Webhook(request, db_up)

SpecWebhook == InitWebhook /\ [][NextWebhook]_vars

(***************************************************************************)
(* wait_for_callback on its own: a caller who holds a checkout id from an  *)
(* earlier initiation calls it, and calls it again after it has returned.  *)
(* pc = "process" is the caller holding what the call returned.            *)
(***************************************************************************)
\* the calls that may return a callback between two deliveries
MaxWaits == 2

WaitForCallback(timeout) ==
    /\ pc \in {"idle", "process"}
    /\ Len(seen) < MaxWaits
    /\ pc' = "health"
    /\ timeout_seconds' = timeout
    /\ UNCHANGED <<formatted_phone, validated_amount, checkout_id, callback_data,
                   rows_before, result, stk_args, response, trail, waitVars,
                   seen, callback_store, transactions, has_column,
                   inbox_reliable, mpesa_transactions, ack, call, ret, tokenVars>>

InitInbox ==
    /\ pc = "idle"
    /\ formatted_phone = <<>>
    /\ validated_amount = 0
    /\ checkout_id \in CheckoutIds
    /\ elapsed = 0
    /\ poll_interval = 0
    /\ poll_raised = FALSE
    /\ poll_errors = 0
    /\ attempts = 0
    /\ callback_data = None
    /\ rows_before = <<>>
    /\ result = NotReturned
    /\ callback_store = [c \in CheckoutIds |-> None]
    /\ transactions = <<>>
    /\ has_column = FALSE
    /\ inbox_reliable \in BOOLEAN
    /\ mpesa_transactions = NoRows
    /\ ack = None
    /\ call = None
    /\ ret = NoReturn
    /\ seen = <<>>
    /\ FlowIdle
    /\ timeout_seconds = stk_timeout_seconds
    /\ TokenIdle

NextInbox ==
    \/ WaitForCallback(stk_timeout_seconds)
    \/ \E health \in {"200", "503", "ConnectionError", "Timeout"} : HealthCheck(health)
    \/ \E reply \in {"200", "non200", "error"} : Poll(reply)
    \/ Sleep
    \/ \E c \in CheckoutIds : \E stk \in StkCallbacks(c), db_up \in BOOLEAN :
          Callback(stk, db_up)

SpecInbox == InitInbox /\ [][NextInbox]_vars

(***************************************************************************)
(* The two validators on their own, called with the texts a user may type  *)
(* at the prompts of main.py (lines 141 and 147).                          *)
(***************************************************************************)
PhonePrefixes ==
    {<<>>, <<"0">>, <<"2", "5", "4">>, <<"+", "2", "5", "4">>, <<"+">>, <<"1">>,
     <<"7">>, <<"0", "7">>, <<"2", "5", "4", "7">>}

PhoneBodies ==
    {Phone712,
     <<"7", "1", "2", " ", "3", "4", "5", " ", "6", "7", "8">>,
     <<"1", "2", "3", "4", "5", "6", "7", "8">>,
     <<"1", "2", "3", "4", "5", "6", "7", "8", "9", "0">>,
     <<"1", "2", "3", "4", "5", "6", "7", "8", "9", "0", "1">>,
     <<"1", "2", "3", "4", "5", "6", "7", "8", "9", "0", "1", "2">>,
     <<"1", "2", "3", "4", "5", "6", "7", "8", "9">>,
     <<"a", "b", "c">>,
     <<>>}

PhoneCases == {pre \o body : pre \in PhonePrefixes, body \in PhoneBodies}

AmountCases ==
    {<<"9">>, <<"1", "0">>, <<"1", "5", "0", "0", "0", "0">>,
     <<"1", "5", "0", "0", "0", "1">>, <<"a", "b", "c">>, <<"n", "a", "n">>,
     <<>>, <<"1", "0", ".", "5">>, <<"9", ".", "9", "9">>,
     <<"1", "5", "0", "0", "0", "0", ".", "5">>,
     <<"1", "5", "0", "0", "0", "0", ".", "0">>, <<"1", "0", "0">>, <<"0">>,
     <<"-", "5">>, <<"-", "5", "0">>, <<"+", "2", "0">>,
     <<"1", ".", "2", ".", "3">>, <<"1", "2", "a">>, <<".", "5">>, <<"5", ".">>,
     <<"9", "9", "9", "9", "9">>, <<"1", "4", "9", "9", "9", "9", ".", "9">>,
     <<"-", "n", "a", "n">>, <<".">>, <<"1", "0", "0", "0">>, <<"5", "0">>,
     <<"1", "0", ".", "0">>, <<"-">>}

ValidatePhone(phone) ==
    /\ call' = Called("validate_phone", phone, 0, TRUE)
    /\ ret' = [NoReturn EXCEPT !.phone = Some(validate_phone(phone))]
    /\ UNCHANGED <<queryFrame, transactions>>

ValidateAmount(amount) ==
    /\ call' = Called("validate_amount", amount, 0, TRUE)
    /\ ret' = [NoReturn EXCEPT !.amount = Some(validate_amount(amount))]
    /\ UNCHANGED <<queryFrame, transactions>>

NextValidate ==
    \/ \E phone \in PhoneCases : ValidatePhone(phone)
    \/ \E amount \in AmountCases : ValidateAmount(amount)

SpecValidate == InitStore /\ [][NextValidate]_vars

(***************************************************************************)
(* get_access_token on its own.                                            *)
(***************************************************************************)
TokenReplies == {"token", "no_token", "non200", "error"}

InitToken ==
    /\ ClientIdle
    /\ callback_store = [c \in CheckoutIds |-> None]
    /\ transactions = <<>>
    /\ has_column = FALSE
    /\ inbox_reliable = TRUE
    /\ mpesa_transactions = NoRows
    /\ ack = None
    /\ call = None
    /\ ret = NoReturn
    /\ seen = <<>>
    /\ FlowIdle
    /\ timeout_seconds = stk_timeout_seconds
    /\ TokenIdle

\* one caller: every call returns before the next begins
NextToken ==
    \/ TokenCall(1)
    \/ \E reply \in TokenReplies : TokenFetch(1, reply)
    \/ TokenCheck(1)
    \/ TokenStamp(1)
    \/ TokenReturn(1)
    \/ Tick

SpecToken == InitToken /\ [][NextToken]_vars

\* two callers on the same client, interleaved statement by statement
NextTokenRace ==
    \/ \E t \in Threads : TokenCall(t)
    \/ \E t \in Threads, reply \in TokenReplies : TokenFetch(t, reply)
    \/ \E t \in Threads : TokenCheck(t)
    \/ \E t \in Threads : TokenStamp(t)
    \/ \E t \in Threads : TokenReturn(t)
    \/ Tick

SpecTokenRace == InitToken /\ [][NextTokenRace]_vars

(***************************************************************************)
(* Properties                                                              *)
(***************************************************************************)
\* the stkCallback of the callback the wait handed to stk_push
Observed == callback_data[1].full_data.Body.stkCallback

\* stk_push has returned after waiting for a callback that came
DoneWithCallback == pc = "done" /\ callback_data # None

\* stk_push has returned because the wait gave it no callback
DoneTimedOut == pc = "done" /\ checkout_id # "" /\ callback_data = None

\* the receipt numbers the metadata of a callback carries
ReceiptsOf(stk) ==
    {stk.Item[i].Value : i \in {j \in 1..Len(stk.Item) :
                                  /\ stk.Item[j].Name = "MpesaReceiptNumber"
                                  /\ stk.Item[j].Value # <<>>}}

\* what stk_push returns to a caller whose wait observed the callback stk
ReturnedFor(stk) ==
    after_wait(Some([full_data |-> Body(stk)]), checkout_id, formatted_phone,
               validated_amount, transactions, TRUE).result

\* C1, first half: a flow whose observed callback has ResultCode 0 and a
\* receipt number in its metadata returns success, with a receipt number that
\* is a MpesaReceiptNumber item of that callback, and its checkout id.
C1_SuccessCarriesReceipt ==
    (DoneWithCallback /\ Observed.ResultCode = 0 /\ ReceiptsOf(Observed) # {})
        => /\ result.returned = "dict"
           /\ result.success
           /\ result.receipt \in ReceiptsOf(Observed)
           /\ result.checkout_id = checkout_id

\* C1, second half: when the Inbox holds the callback at the first poll of a
\* wait (no sleep has happened: elapsed = 0) and answers that poll, the wait
\* ends there and returns the stored entry.
C1_FirstPollReturns ==
    (/\ pc = "poll" /\ elapsed = 0 /\ inbox_reliable
     /\ callback_store[checkout_id] # None
     /\ pc' # pc)
        => /\ pc' = "process"
           /\ callback_data' = callback_store[checkout_id]

\* C1: a success callback with a receipt number ends the flow in success with
\* that receipt number, and a callback already stored when the wait starts is
\* returned by the first poll, before any sleep.
C1_SuccessWithReceipt ==
    []C1_SuccessCarriesReceipt /\ [][C1_FirstPollReturns]_vars

C1_Witness ==
    /\ DoneWithCallback
    /\ Observed.ResultCode = 0
    /\ ReceiptA \in ReceiptsOf(Observed)
    /\ result.success
    /\ result.receipt = ReceiptA

\* C2: a flow whose observed callback has ResultCode 0 and no receipt number
\* returns a failure with a reason (never a success, never nothing) and
\* stores no record.
C2_ZeroCodeWithoutReceiptFails ==
    (DoneWithCallback /\ Observed.ResultCode = 0 /\ ReceiptsOf(Observed) = {})
        => /\ result.returned = "dict"
           /\ ~result.success
           /\ "reason" \in result.keys
           /\ transactions = rows_before

\* C3: a flow whose observed callback has ResultCode 1032 returns an outcome
\* that differs from the outcome of every failed flow (a callback with a
\* ResultCode other than 0 and 1032).
C3_CancelledDistinctFromFailed ==
    (DoneWithCallback /\ Observed.ResultCode = 1032)
        => \A stk \in StkCallbacks(checkout_id) :
              stk.ResultCode \notin {0, 1032} => result # ReturnedFor(stk)

\* C4: a flow whose observed callback has a ResultCode other than 0 and 1032
\* returns a failure whose reason is the callback's ResultDesc, and the store
\* holds the rows it held when the flow began.
C4_FailedCarriesResultDesc ==
    (DoneWithCallback /\ Observed.ResultCode \notin {0, 1032})
        => /\ result.returned = "dict"
           /\ ~result.success
           /\ "reason" \in result.keys
           /\ Observed.ResultDesc # None => result.reason = Observed.ResultDesc[1]
           /\ transactions = rows_before

C4_Witness ==
    /\ DoneWithCallback
    /\ Observed.ResultCode = 1
    /\ Observed.ResultDesc = Some("Callback timeout")
    /\ result.reason = "Callback timeout"

\* C5: the outcome of a flow whose wait timed out carries the checkout id and
\* differs from the outcome of every flow that observed a failure callback,
\* whatever that callback's ResultDesc is ("Callback timeout" included).
C5_TimeoutDistinctFromFailed ==
    DoneTimedOut
        => /\ result.returned = "dict"
           /\ ~result.success
           /\ "checkout_id" \in result.keys
           /\ result.checkout_id = checkout_id
           /\ \A stk \in StkCallbacks(checkout_id) :
                 stk.ResultCode # 0 => result # ReturnedFor(stk)

C5_Witness ==
    /\ DoneTimedOut
    /\ result.reason = "Callback timeout"
    /\ \E stk \in StkCallbacks(checkout_id) :
          ReturnedFor(stk).reason = "Callback timeout"

\* C6: a wait does not time out while the Inbox holds a callback for its
\* checkout id that was stored before the deadline: in a sleep the deadline
\* has not passed, so a wait that sleeps with the callback stored (and an
\* Inbox that answers every poll) does not return without it.
C6_StoredBeforeDeadlineIsReturned ==
    [][(pc = "sleep" /\ inbox_reliable /\ callback_store[checkout_id] # None)
          => ~(pc' = "process" /\ callback_data' = None)]_vars

\* C7 as stated: every flow that waited and reached an outcome has appended
\* exactly one record.
C7_ExactlyOneRecord ==
    (pc = "done" /\ checkout_id # "")
        => Len(transactions) = Len(rows_before) + 1

\* C7 as amended: a flow appends at most one record, and only when it
\* returns success; the record holds the returned receipt number with status
\* SUCCESS, and the rows stored before are unchanged.  A flow that ends in
\* failure, cancellation or timeout appends none.
C7_AtMostOneRecordOnSuccess ==
    pc = "done"
        => \/ transactions = rows_before
           \/ /\ result.returned = "dict"
              /\ result.success
              /\ Len(transactions) = Len(rows_before) + 1
              /\ SubSeq(transactions, 1, Len(rows_before)) = rows_before
              /\ transactions[Len(transactions)].receipt_number = Some(result.receipt)
              /\ transactions[Len(transactions)].status = "SUCCESS"

C7_Witness ==
    /\ DoneWithCallback
    /\ result.success
    /\ Len(transactions) = Len(rows_before) + 1
    /\ transactions[Len(transactions)].receipt_number = Some(result.receipt)

\* C8: no row is written before the flow has observed a callback that
\* confirms the payment (ResultCode 0 with a receipt number): the store is
\* unchanged until stk_push returns, changes only for such a callback, and
\* never holds a PENDING row.
C8_RecordOnlyAfterConfirmation ==
    /\ pc \in {"token", "initiate", "health", "poll", "sleep", "process"}
          => transactions = rows_before
    /\ (pc = "done" /\ transactions # rows_before)
          => /\ callback_data # None
             /\ Observed.ResultCode = 0
             /\ ReceiptsOf(Observed) # {}
    /\ \A i \in 1..Len(transactions) : transactions[i].status # "PENDING"

C8_Witness ==
    /\ pc = "done"
    /\ transactions # rows_before
    /\ callback_data # None
    /\ Observed.ResultCode = 0

\* a column that holds a receipt number (not NULL, not empty)
HasReceipt(r) == r # None /\ r[1] # <<>>

\* C9: every stored row has a receipt number if and only if its status is
\* SUCCESS or COMPLETED, in the repository the webhook of callback_handler.py
\* updates as well as in the transactions table.
C9_ReceiptIffSuccess ==
    /\ \A i \in 1..Len(transactions) :
          HasReceipt(transactions[i].receipt_number)
              <=> transactions[i].status \in {"SUCCESS", "COMPLETED"}
    /\ \A c \in HandlerIds :
          mpesa_transactions[c] # None
              => (HasReceipt(mpesa_transactions[c][1].mpesa_receipt_number)
                    <=> mpesa_transactions[c][1].status
                            \in {Some("SUCCESS"), Some("COMPLETED")})

C11_SuccessIsStored ==
    (pc = "done" /\ result.returned = "dict" /\ result.success)
        => \E i \in 1..Len(transactions) :
              transactions[i].receipt_number = Some(result.receipt)

\* what a query that reached the database and found no record returns
NotFound(fn, arg, limit) ==
    IF fn = "get_transactions_by_phone"
    THEN [NoReturn EXCEPT !.list = get_transactions_by_phone(<<>>, TRUE, arg, limit)]
    ELSE [NoReturn EXCEPT !.row = get_transaction_by_receipt(<<>>, TRUE, arg)]

\* C12: a lookup by phone (of a phone with digits, so that the database is
\* asked) or by receipt that could not reach the database returns something
\* other than what a lookup that succeeded and found no record returns.
C12_FailedQueryIsTold ==
    (/\ call # None
     /\ call[1].fn \in {"get_transactions_by_phone", "get_transaction_by_receipt"}
     /\ call[1].fn = "get_transactions_by_phone"
            => normalize_phone(call[1].arg) # <<>>
     /\ ~call[1].db_up)
        => ret # NotFound(call[1].fn, call[1].arg, call[1].limit)

\* C13: whatever request the webhook was given, its reply to the gateway is
\* ResultCode 0 with ResultDesc "Success".
C13_AlwaysAcknowledged == ack # None => ack[1] = Success

\* C14, the results: every callback that wait_for_callback has returned
\* since the last delivery is the entry the Inbox holds, so two successive
\* calls with no delivery in between return the same callback.
C14_SameResult ==
    \A i \in 1..Len(seen) :
        /\ callback_store[checkout_id] # None
        /\ seen[i] = callback_store[checkout_id][1]

\* C14, the effects: no step of wait_for_callback changes the Inbox or the
\* stored rows, and none starts an initiation or changes the checkout id.
C14_NoEffect ==
    pc' # pc => /\ UNCHANGED <<callback_store, transactions, mpesa_transactions>>
                /\ checkout_id' = checkout_id
                /\ pc' # "initiate"

\* C14: reading the Inbox does not remove or change the entry: two
\* successive waits for one checkout id, with no delivery in between, return
\* the same callback, and neither initiates a payment or writes to the store.
C14_ReadIsNonDestructive == []C14_SameResult /\ [][C14_NoEffect]_vars

C14_Witness ==
    /\ pc = "process"
    /\ Len(seen) = 2
    /\ seen[1] = seen[2]
    /\ callback_data = Some(seen[2])

\* the CallbackResult that get_callback_status hands out for checkout id c
StoredResult(store, c) == get_callback_status(store, c).data[1].full_data

\* C15: once the Inbox holds a callback for a checkout id, no later delivery
\* for that checkout id changes the CallbackResult that get_callback_status
\* returns for it.
C15_FirstResultStays ==
    [][\A c \in CheckoutIds :
          callback_store[c] # None
              => /\ callback_store'[c] # None
                 /\ StoredResult(callback_store', c) = StoredResult(callback_store, c)]_vars

\* C16: a stored row whose status is terminal (anything but PENDING) keeps its
\* status and its receipt number through every later callback; only a
\* PENDING row is updated.
C16_TerminalRowsStay ==
    [][\A i \in 1..Len(transactions) :
          transactions[i].status # "PENDING"
              => /\ Len(transactions') >= i
                 /\ transactions'[i].status = transactions[i].status
                 /\ transactions'[i].receipt_number
                        = transactions[i].receipt_number]_vars

\* C17: an Inbox entry is marked database_updated only when the row stored
\* for its checkout id was updated: that row then holds the entry's receipt
\* number with status SUCCESS.
C17_MarkedOnlyWhenUpdated ==
    \A c \in CheckoutIds :
        (callback_store[c] # None /\ callback_store[c][1].database_updated)
            => \E i \in 1..Len(transactions) :
                  /\ transactions[i].checkout_id = Some(c)
                  /\ transactions[i].receipt_number = callback_store[c][1].receipt
                  /\ transactions[i].status = "SUCCESS"

\* the four ways of writing the number 254712345678 that validate_phone accepts
AcceptedFormats == {Phone0712, Phone254, <<"+">> \o Phone254, Phone712}

\* C18: validate_phone returns 254712345678 for each of 0712345678,
\* 254712345678, +254712345678 and 712345678.
C18_FormatsAgree ==
    (call # None /\ call[1].fn = "validate_phone" /\ call[1].arg \in AcceptedFormats)
        => ret.phone[1].ok /\ ret.phone[1].value = Phone254

C18_Witness ==
    /\ call # None
    /\ call[1].fn = "validate_phone"
    /\ call[1].arg = Phone712
    /\ ret.phone[1].ok
    /\ ret.phone[1].value = Phone254

\* the canonical form of a phone: 254 followed by 9 digits
Canonical(p) == Len(p) = 12 /\ AllDigits(p) /\ StartsWith(p, <<"2", "5", "4">>)

\* C19: for every input, validate_phone either raises ValidationError or
\* returns a canonical phone (254 followed by 9 digits).
C19_CanonicalOrError ==
    (call # None /\ call[1].fn = "validate_phone")
        => \/ ~ret.phone[1].ok /\ ret.phone[1].error = "ValidationError"
           \/ ret.phone[1].ok /\ Canonical(ret.phone[1].value)

\* the amounts validate_amount has to refuse: not a number, below 10 or
\* above 150000
Refused(f) ==
    \/ ~f.ok
    \/ ~f.nan /\ (f.neg \/ f.ip < 10 \/ f.ip > 150000 \/ (f.ip = 150000 /\ f.frac))

\* C20: validate_amount raises ValidationError for every text that is not a
\* number and for every value below 10 or above 150000, and returns every
\* other value truncated to an integer, which lies in 10..150000 (for the
\* text "nan", which is a number and neither below 10 nor above 150000,
\* either of the two is taken as right).
C20_AmountInRangeOrError ==
    (call # None /\ call[1].fn = "validate_amount")
        => LET f == float(call[1].arg)
               r == ret.amount[1]
               raises == ~r.ok /\ r.error = "ValidationError"
               returns == r.ok /\ r.value >= 10 /\ r.value <= 150000
           IN  /\ Refused(f) => raises
               /\ (~Refused(f) /\ ~f.nan) => (returns /\ r.value = f.ip)
               /\ f.nan => (raises \/ returns)

\* stk_push has returned a failure that carries `reason`
FailedWith(reason) ==
    /\ pc = "done"
    /\ result.returned = "dict"
    /\ ~result.success
    /\ "reason" \in result.keys
    /\ result.reason = reason
    /\ reason # ""

\* the flow has left the store and the Inbox alone
NothingPolledOrWritten ==
    /\ \A i \in 1..Len(trail) : trail[i] \notin {"health", "poll", "save"}
    /\ transactions = rows_before
    /\ callback_data = None
    /\ checkout_id = ""

\* stk_push was called with a phone number or an amount that validation refuses
InvalidInput ==
    /\ stk_args # None
    /\ \/ ~validate_phone(stk_args[1].phone).ok
       \/ ~validate_amount(stk_args[1].amount).ok

\* get_access_token raised: the flow asked for a token and ended without
\* sending the STK push
TokenRejected == pc = "done" /\ response = None /\ trail = <<"token">>

\* the STK push was sent and the reply was not an acceptance
InitiationRejected == response # None /\ ~stk_reply(response[1]).accepted

\* C21: a call with an invalid phone number or amount fetches no token, sends
\* no STK push, polls nothing and writes nothing; a call whose token fetch or
\* STK push is rejected polls nothing and writes nothing; in each case the
\* caller gets success = False with the reason of the rejection.
C21_EarlyAbort ==
    /\ InvalidInput =>
          /\ trail = <<>>
          /\ response = None
          /\ NothingPolledOrWritten
          /\ FailedWith(IF ~validate_phone(stk_args[1].phone).ok
                        THEN validate_phone(stk_args[1].phone).msg
                        ELSE validate_amount(stk_args[1].amount).msg)
    /\ TokenRejected =>
          /\ NothingPolledOrWritten
          /\ FailedWith("Token generation failed")
    /\ InitiationRejected =>
          /\ trail = <<"token", "initiate">>
          /\ NothingPolledOrWritten
          /\ FailedWith(stk_reply(response[1]).reason)

\* the gateway has refused an STK push while the table holds a row
C21_Witness ==
    /\ InitiationRejected
    /\ response[1].status = "400"
    /\ pc = "done"
    /\ transactions # <<>>

\* the HTTP statuses of the 2xx class among the replies
Statuses2xx == {"200", "201"}

\* the reply the STK push got is an HTTP response that stk_push reads
ReadReply(r) == r.status # "error" /\ r.status \notin status_forcelist

\* C22 as amended: the STK push yields a checkout id, and the flow goes on to
\* wait, if and only if the reply has status 200 exactly, ResponseCode "0" and
\* a CheckoutRequestID; after any other reply stk_push returns a failure and
\* never waits, and the failure carries the gateway's text (status and body,
\* or errorMessage, or ResponseDescription) when the reply is a response that
\* stk_push reads.
C22_IdIffStatus200 ==
    [][(pc = "initiate" /\ pc' # "initiate") =>
          LET r == response'[1]
              good == r.status = "200" /\ r.ResponseCode = "0" /\ r.has_id
          IN  /\ (pc' = "health" /\ checkout_id' \in CheckoutIds) <=> good
              /\ ~good =>
                    /\ pc' = "done"
                    /\ checkout_id' = ""
                    /\ result'.returned = "dict"
                    /\ ~result'.success
                    /\ result'.reason # ""
                    /\ (ReadReply(r) /\ r.status # "200")
                          => result'.reason = HttpReason(r)
                    /\ (r.status = "200" /\ r.ResponseCode # "0" /\ r.errorMessage # None)
                          => result'.reason = r.errorMessage[1]
                    /\ (r.status = "200" /\ r.ResponseCode # "0" /\ r.errorMessage = None
                        /\ r.ResponseDescription # None)
                          => result'.reason = r.ResponseDescription[1]]_vars

\* C22 as stated: the STK push yields a checkout id if and only if the status
\* of the reply is 2xx and its ResponseCode is "0".
C22_IdIffStatus2xx ==
    [][(pc = "initiate" /\ pc' # "initiate") =>
          ((pc' = "health" /\ checkout_id' \in CheckoutIds)
              <=> (/\ response'[1].status \in Statuses2xx
                   /\ response'[1].ResponseCode = "0"))]_vars

\* the gateway answered 201 with ResponseCode "0" and stk_push returned a failure
C22_Witness ==
    /\ pc = "done"
    /\ response # None
    /\ response[1].status = "201"
    /\ response[1].ResponseCode = "0"
    /\ response[1].has_id
    /\ result.reason = "HTTP 201: "
    /\ checkout_id = ""

\* caller t takes the step of get_access_token that leaves position `from`
Leaves(t, from) == tpc[t] = from /\ tpc'[t] # from

\* C23: with one caller at a time, get_access_token started while a token is
\* cached and now is before its expiry returns that token without a request;
\* otherwise it sends a request, and a token that arrives is cached with
\* expiry now + 50 minutes; every token returned is younger than the 60
\* minutes the gateway lets it live; a call that raises (failed request, or a
\* reply without token) leaves no valid cache behind, so the next call sends
\* a request again.
C23_TokenCache ==
    [][/\ token_ttl_minutes < token_lifetime_minutes
       /\ Leaves(1, "idle") =>
             IF cache_valid THEN tpc'[1] = "return" ELSE tpc'[1] = "request"
       /\ Leaves(1, "stamp") =>
             /\ access_token = Some(now)
             /\ tret[1].fetched
             /\ token_expiry' = Some(now + token_ttl_minutes)
       /\ Leaves(1, "return") =>
             /\ tret'[1].state = "returned"
             /\ tret'[1].token = access_token
             /\ access_token # None
             /\ cache_valid
             /\ now < access_token[1] + token_lifetime_minutes
             /\ UNCHANGED <<access_token, token_expiry>>
       /\ (tret[1].state = "running" /\ tret'[1].state = "raised") =>
             /\ tret'[1].fetched
             /\ ~cache_valid'
             /\ tpc'[1] = "idle"]_vars

\* a second token was fetched after the first had expired, and a later call
\* got it from the cache
C23_Witness ==
    /\ tret[1].state = "returned"
    /\ ~tret[1].fetched
    /\ tret[1].token # None
    /\ tret[1].token[1] > 0
    /\ tret[1].at > tret[1].token[1]

\* C24: under every interleaving of the callers of one client, a call of
\* get_access_token that returns (does not raise) returns a token the gateway
\* issued, never None.
C24_NeverReturnsNone ==
    \A t \in Threads : tret[t].state = "returned" => tret[t].token # None

\* the effect is on the trail
Has(t, effect) == \E i \in 1..Len(t) : t[i] = effect

\* if `later` is on the trail, `earlier` is on it at a lower position
Before(t, earlier, later) ==
    \A j \in 1..Len(t) : t[j] = later => \E i \in 1..(j - 1) : t[i] = earlier

\* C25: in one call of stk_push the STK push is answered before the callback
\* server is first contacted and before the first poll, every poll is over
\* when save_transaction is called, and the only step of the flow that
\* changes the table is taken with a checkout id in hand and a callback with
\* ResultCode 0 observed by a poll.
C25_InitiateThenPollThenWrite ==
    [][/\ Before(trail', "token", "initiate")
       /\ Before(trail', "initiate", "health")
       /\ Before(trail', "health", "poll")
       /\ Before(trail', "poll", "save")
       /\ Has(trail', "health") => checkout_id' \in CheckoutIds
       /\ Has(trail', "save") => pc' = "done"
       /\ Has(trail, "save") => trail' = trail
       /\ (pc' # pc /\ (transactions' # transactions \/ Has(trail', "save"))) =>
             /\ pc = "process"
             /\ checkout_id \in CheckoutIds
             /\ Has(trail, "poll")
             /\ callback_data # None
             /\ Observed.CheckoutRequestID = checkout_id
             /\ Observed.ResultCode = 0]_vars

\* a flow has gone all the way and has added a row
C25_Witness ==
    /\ trail = <<"token", "initiate", "health", "poll", "save">>
    /\ pc = "done"
    /\ Len(transactions) > Len(rows_before)

\* C26: once wait_for_callback has returned, with a callback or with None,
\* the flow polls no more: it keeps what the wait returned and goes on to
\* its return; once stk_push has returned nothing of the flow changes any
\* more, whatever callback the webhook receives afterwards.
C26_NoPollAfterReturn ==
    [][/\ pc \in {"process", "done"} =>
             /\ pc' \in {"process", "done"}
             /\ UNCHANGED <<callback_data, checkout_id, waitVars>>
             /\ ~Has(trail, "poll") => ~Has(trail', "poll")
       /\ pc = "done" => UNCHANGED clientVars]_vars

\* stk_push has returned "Callback timeout" and the callback is in the Inbox
C26_Witness ==
    /\ DoneTimedOut
    /\ result = TimeoutResult(checkout_id)
    /\ callback_store[checkout_id] # None
    /\ Has(trail, "poll")

(***************************************************************************)
(* Two flows and one callback server.  The flow that is followed step by   *)
(* step gets its checkout id from CheckoutIds; the ids of OtherIds were    *)
(* issued to another flow, whose callbacks reach the same webhook at any   *)
(* time.  `call` is the last delivery: its arg is the checkout id.         *)
(***************************************************************************)
OtherIds == HandlerIds \ CheckoutIds

\* a confirmation and a cancellation for the checkout id c
TwoFlowCallbacks(c) ==
    {[CheckoutRequestID |-> c, ResultCode |-> 0,
      ResultDesc |-> Some("The service request is processed successfully."),
      Item |-> <<Item("Amount", <<"5", "0">>),
                 Item("MpesaReceiptNumber",
                      IF c \in CheckoutIds THEN ReceiptA ELSE ReceiptB),
                 Item("PhoneNumber", PaidPhone)>>],
     [CheckoutRequestID |-> c, ResultCode |-> 1032, ResultDesc |-> Some(Cancelled),
      Item |-> <<>>]}

\* POST /mpesa/callback (fast/callback.py lines 105-164) with the callback
\* stk; the gateway sends a callback only for an id it has issued
Deliver(stk, db_up) ==
    /\ stk.CheckoutRequestID \in CheckoutIds => checkout_id = stk.CheckoutRequestID
    /\ LET out == mpesa_callback(callback_store, transactions, db_up, has_column,
                                 Delivery(stk))
       IN  /\ callback_store' = out.store
           /\ transactions' = out.rows
           /\ ack' = Some(out.reply)
    /\ seen' = <<>>
    /\ call' = Called("mpesa_callback", <<stk.CheckoutRequestID>>, 0, db_up)
    /\ UNCHANGED <<clientVars, has_column, inbox_reliable, mpesa_transactions,
                   ret, tokenVars, timeout_seconds>>

InitTwo ==
    /\ ClientIdle
    /\ callback_store = [c \in HandlerIds |-> None]
    /\ transactions = <<>>
    /\ has_column = FALSE
    /\ inbox_reliable = TRUE
    /\ mpesa_transactions = NoRows
    /\ ack = None
    /\ call = None
    /\ ret = NoReturn
    /\ seen = <<>>
    /\ FlowIdle
    /\ timeout_seconds = stk_timeout_seconds
    /\ TokenIdle

NextTwo ==
    \/ \E phone \in PhoneInputs, amount \in AmountInputs : StkPush(phone, amount)
    \/ \E ok \in BOOLEAN : GetToken(ok)
    \/ \E reply \in GatewayReplies, c \in CheckoutIds : Initiate(reply, c)
    \/ \E health \in {"200", "503", "ConnectionError", "Timeout"} : HealthCheck(health)
    \/ \E reply \in {"200", "non200", "error"} : Poll(reply)
    \/ Sleep
    \/ \E db_up \in BOOLEAN : AfterWait(db_up)
    \/ \E c \in HandlerIds : \E stk \in TwoFlowCallbacks(c), db_up \in BOOLEAN :
          Deliver(stk, db_up)

SpecTwo == InitTwo /\ [][NextTwo]_vars

\* the step is a delivery of a callback for an id of the other flow
OtherDelivered ==
    /\ pc' = pc
    /\ call' # None
    /\ call'[1].arg[1] \in OtherIds
    /\ callback_store'[call'[1].arg[1]] # None

\* C27: a callback delivered for the other flow's checkout id leaves the
\* followed flow where it is: its Inbox entry, its position, its result and
\* the table are unchanged; the flow leaves its wait with a callback only
\* when the Inbox holds one under its own id, what it then holds is that
\* entry, and the row it writes carries a receipt of that callback.
C27_OtherCallbackChangesNothing ==
    [][/\ OtherDelivered =>
             /\ \A c \in CheckoutIds : callback_store'[c] = callback_store[c]
             /\ UNCHANGED <<clientVars, transactions>>
       /\ (pc = "poll" /\ pc' = "process" /\ callback_data' # None) =>
             /\ callback_store[checkout_id] # None
             /\ callback_data' = callback_store[checkout_id]
             /\ Observed'.CheckoutRequestID = checkout_id
       /\ (pc = "poll" /\ callback_store[checkout_id] = None) =>
             pc' \in {"poll", "sleep"}
       /\ (pc = "process" /\ pc' = "done") =>
             /\ result' = after_wait(callback_data, checkout_id, formatted_phone,
                                     validated_amount, transactions, TRUE).result
             /\ \A i \in (Len(transactions) + 1)..Len(transactions') :
                   /\ transactions'[i].receipt_number # None
                   /\ transactions'[i].receipt_number[1] \in ReceiptsOf(Observed)]_vars

\* the followed flow has timed out while the Inbox held the other flow's
\* confirmation and nothing under its own id
C27_Witness ==
    /\ DoneTimedOut
    /\ checkout_id \in CheckoutIds
    /\ callback_store[checkout_id] = None
    /\ \E o \in OtherIds : /\ callback_store[o] # None
                           /\ callback_store[o][1].result_code = 0
    /\ transactions = <<>>

\* C28: an entry the webhook has stored under a checkout id stays: every
\* later read of that id answers received with an entry, whatever is stored
\* under other ids and whatever is read in between; and the delivery itself
\* leaves the entry of its own callback under its id.
C28_StoredStaysStored ==
    [][/\ \A c \in HandlerIds :
             callback_store[c] # None =>
                /\ callback_store'[c] # None
                /\ get_callback_status(callback_store', c).received
                /\ get_callback_status(callback_store', c).data = callback_store'[c]
       /\ (pc' = pc /\ call' # None) =>
             LET c == call'[1].arg[1]
             IN  /\ get_callback_status(callback_store', c).received
                 /\ callback_store'[c][1].full_data.Body.stkCallback.CheckoutRequestID = c
                 /\ \A o \in HandlerIds \ {c} : callback_store'[o] = callback_store[o]]_vars

\* the followed flow's callback was stored, then one for the other flow, and
\* the followed flow's poll after that returned its own entry
C28_Witness ==
    /\ pc = "process"
    /\ seen # <<>>
    /\ call # None
    /\ call[1].arg[1] \in OtherIds
    /\ callback_data # None
    /\ callback_data = callback_store[checkout_id]
    /\ \A c \in HandlerIds : callback_store[c] # None

\* C29: whatever rows the table holds, a lookup under "0712345678" and a
\* lookup under "254712345678" give the same list, for every limit; so does
\* each call made with one of the two forms when compared with the other.
C29_LocalEqualsInternational ==
    /\ \A limit \in Limits :
          get_transactions_by_phone(transactions, TRUE, Phone0712, limit)
             = get_transactions_by_phone(transactions, TRUE, Phone254, limit)
    /\ (/\ call # None
        /\ call[1].fn = "get_transactions_by_phone"
        /\ call[1].arg \in {Phone0712, Phone254}) =>
          \A other \in {Phone0712, Phone254} :
             ret.list = get_transactions_by_phone(transactions, call[1].db_up,
                                                  other, call[1].limit)

\* a lookup under the local form has returned a row stored under the local
\* form and a row stored under the international form
C29_Witness ==
    /\ call # None
    /\ call[1].fn = "get_transactions_by_phone"
    /\ call[1].arg = Phone0712
    /\ Len(ret.list) = 2
    /\ {ret.list[1].phone, ret.list[2].phone} = {Phone0712, Phone254}

\* save_transaction has just stored a row
JustStored ==
    /\ call # None
    /\ call[1].fn = "save_transaction"
    /\ ret.id # None

\* the row a lookup of the receipt just passed to save_transaction returns
Found ==
    get_transaction_by_receipt(transactions, TRUE, call[1].saved[1].receipt_number)

C31_BackoffAfterEveryMiss ==
    [][/\ (pc = "health" /\ pc' = "poll") =>
             poll_interval' = Seconds(initial_poll_interval)
       /\ (pc = "sleep" /\ pc' = "poll") =>
             /\ poll_interval' = NextInterval(poll_interval)
             /\ poll_interval' >= poll_interval
             /\ poll_interval' <= Seconds(max_backoff)]_vars

(***************************************************************************)
(* One caller of wait_for_callback and a callback server that may fail at  *)
(* every request: the wait is called with a timeout of 1 second or with    *)
(* the 120 seconds stk_push passes, any number of its polls may raise, and *)
(* the callback may be delivered at any time.  One call is followed.       *)
(***************************************************************************)
\* self.max_poll_attempts (line 65)
max_poll_attempts == 60

WaitTimeouts == {1, stk_timeout_seconds}

\* a cancellation for the checkout id c
WaitCallbacks(c) ==
    {[CheckoutRequestID |-> c, ResultCode |-> 1032, ResultDesc |-> Some(Cancelled),
      Item |-> <<>>]}

NextWait ==
    \/ \E timeout \in WaitTimeouts : pc = "idle" /\ WaitForCallback(timeout)
    \/ \E health \in {"200", "503", "ConnectionError", "Timeout"} : HealthCheck(health)
    \/ \E reply \in {"200", "non200", "error"} : PollWith(reply, max_poll_attempts)
    \/ Sleep
    \/ \E c \in CheckoutIds : \E stk \in WaitCallbacks(c) : Callback(stk, TRUE)

SpecWait == InitInbox /\ [][NextWait]_vars

\* wait_for_callback is sequential code whose requests have timeouts (lines
\* 188 and 216) and whose sleeps end: each of its steps is taken
SpecWaitFair ==
    /\ SpecWait
    /\ WF_vars(\E health \in {"200", "503", "ConnectionError", "Timeout"} :
                  HealthCheck(health))
    /\ WF_vars(\E reply \in {"200", "non200", "error"} :
                  PollWith(reply, max_poll_attempts))
    /\ WF_vars(Sleep)

\* wait_for_callback returns None out of its loop
TimesOut == pc = "sleep" /\ pc' = "process" /\ callback_data' = None

\* the time since the loop started at which the loop's test fails
ReturnTime == elapsed + poll_interval

\* one and a half seconds
AboutOneSecond == Seconds(1) + Seconds(1) \div 2

\* C32: a wait that no callback ends returns None no later than
\* timeout_seconds plus one polling interval (at most 8 seconds) after its
\* loop started, polls taking no time; called with a timeout of 1 second it
\* returns within about 1 second.
C32_TimeoutIsPrompt ==
    [][TimesOut =>
          /\ ReturnTime <= Seconds(timeout_seconds) + poll_interval
          /\ poll_interval <= Seconds(max_backoff)
          /\ timeout_seconds = 1 => ReturnTime <= AboutOneSecond]_vars

\* C33: wait_for_callback returns None only out of its loop and only when
\* timeout_seconds have passed since the loop started, also when the
\* callback server cannot be reached.
C33_NoTimeoutBeforeDeadline ==
    [][(pc # "process" /\ pc' = "process" /\ callback_data' = None) =>
          /\ pc = "sleep"
          /\ ReturnTime >= Seconds(timeout_seconds)]_vars

\* the wait is under way
Waiting == pc \in {"health", "poll", "sleep"}

\* C34: every call of wait_for_callback returns, whatever the callback
\* server does, and it polls at most 60 times (at most once when the timeout
\* is 1 second).
C34_WaitReturns ==
    /\ [](attempts <= max_poll_attempts)
    /\ [](timeout_seconds = 1 => attempts <= 1)
    /\ Waiting ~> (pc = "process")

\* every poll of a 120-second wait has raised: this is the 60th
C34_Witness ==
    /\ attempts = max_poll_attempts
    /\ poll_errors = max_poll_attempts
    /\ pc = "sleep"
    /\ timeout_seconds = stk_timeout_seconds

\* The state of the flow as stk_push shows it.  A flow is INITIATED until the
\* gateway has accepted its STK push, WAITING inside wait_for_callback and
\* until stk_push returns, and afterwards what the returned value says;
\* REJECTED is a call that returned before any push was accepted, NONE a call
\* that returned no dictionary.
FlowState ==
    CASE pc \in {"idle", "token", "initiate"} -> "INITIATED"
      [] pc \in {"health", "poll", "sleep", "process"} -> "WAITING"
      [] pc = "done" /\ checkout_id = "" -> "REJECTED"
      [] pc = "done" /\ checkout_id # "" /\ result.returned # "dict" -> "NONE"
      [] pc = "done" /\ checkout_id # "" /\ result.returned = "dict"
            /\ result.success -> "CONFIRMED_SUCCESS"
      [] pc = "done" /\ checkout_id # "" /\ result.returned = "dict"
            /\ ~result.success /\ callback_data = None -> "TIMED_OUT"
      [] pc = "done" /\ checkout_id # "" /\ result.returned = "dict"
            /\ ~result.success /\ callback_data # None
            /\ Observed.ResultCode = 1032 -> "CONFIRMED_CANCELLED"
      [] OTHER -> "CONFIRMED_FAILED"

Terminal ==
    {"CONFIRMED_SUCCESS", "CONFIRMED_CANCELLED", "CONFIRMED_FAILED", "TIMED_OUT"}

\* C35: a flow moves INITIATED -> WAITING -> one of the four terminal states:
\* an accepted flow that stops waiting is in one of the four, a terminal
\* state is entered from WAITING only, and nothing follows a terminal state.
C35_StateMachine ==
    [][/\ FlowState = "INITIATED" => FlowState' \in {"INITIATED", "WAITING", "REJECTED"}
       /\ FlowState = "WAITING" => FlowState' \in {"WAITING"} \cup Terminal
       /\ FlowState' \in Terminal => FlowState \in {"WAITING", FlowState'}
       /\ FlowState \in Terminal => FlowState' = FlowState]_vars

\* C36: whenever stk_push has returned, it has returned a dictionary with a
\* boolean `success`, and with a non-empty `reason` when success is False.
C36_AlwaysAResult ==
    pc = "done" =>
       /\ result.returned = "dict"
       /\ "success" \in result.keys
       /\ result.success \in BOOLEAN
       /\ ~result.success => ("reason" \in result.keys /\ result.reason # "")

\* C37: validate_phone is idempotent on everything it accepts: whenever a
\* call has returned a phone, validate_phone of that phone succeeds and
\* returns the same phone.
C37_Idempotent ==
    (call # None /\ call[1].fn = "validate_phone" /\ ret.phone[1].ok)
        => /\ validate_phone(ret.phone[1].value).ok
           /\ validate_phone(ret.phone[1].value).value = ret.phone[1].value

\* a phone that is not in its final form is accepted and rewritten
C37_Witness ==
    /\ call # None
    /\ call[1].fn = "validate_phone"
    /\ call[1].arg = Phone0712
    /\ ret.phone[1].ok
    /\ ret.phone[1].value # call[1].arg
    /\ validate_phone(ret.phone[1].value).ok

\* the call just made is save_transaction
Saving == call' # None /\ call'[1].fn = "save_transaction"

\* the receipt passed to the call is already stored
ReceiptTaken ==
    \E i \in 1..Len(transactions) :
        transactions[i].receipt_number = Some(call'[1].saved[1].receipt_number)

\* C38: save_transaction either commits exactly one new row and returns its
\* id, or leaves the stored rows unchanged and returns no id, the latter on
\* every connection error and constraint error; in both cases the connection
\* it opened is closed.
C38_AtomicInsert ==
    [][Saving =>
          /\ \/ /\ ret'.id # None
                /\ Len(transactions') = Len(transactions) + 1
                /\ SubSeq(transactions', 1, Len(transactions)) = transactions
                /\ transactions'[Len(transactions')].id = ret'.id[1]
                /\ transactions'[Len(transactions')].receipt_number
                      = Some(call'[1].saved[1].receipt_number)
             \/ /\ ret'.id = None
                /\ transactions' = transactions
          /\ (~call'[1].db_up \/ ReceiptTaken) => ret'.id = None
          /\ ret'.conn[1].opened => ret'.conn[1].closed
          /\ ret'.conn[1].opened = call'[1].db_up]_vars

\* an insert refused by the UNIQUE constraint, on a connection that was
\* opened and closed, has left the stored row alone
C38_Witness ==
    /\ call # None
    /\ call[1].fn = "save_transaction"
    /\ call[1].db_up
    /\ ret.id = None
    /\ ret.conn[1].opened
    /\ ret.conn[1].closed
    /\ Len(transactions) = 1
    /\ transactions[1].receipt_number = Some(call[1].saved[1].receipt_number)

====
